---- MODULE Spec2Model ----
(***************************************************************************)
(* A model of mapi's providers (src/mapi/providers.py) and of the error    *)
(* classification of its endpoint layer (src/mapi/endpoints.py).           *)
(*                                                                         *)
(* A provider instance is constructed once; every search(...) call makes   *)
(* a generator, which the caller drives with next().  One step of a        *)
(* running generator is the code between two suspension points: one        *)
(* endpoint call with the backend's answer, one entry of a response, one   *)
(* exception handler.  The backend's answers are inputs: every answer the  *)
(* endpoint function can return or raise is possible at every call.        *)
(***************************************************************************)
EXTENDS Integers, Sequences, FiniteSets, TLC

(* ------------------------------ bounds -------------------------------- *)

\* Entries in one page of a backend response.
MaxEntries == 2
\* Candidate series a series search can return (the code keeps at most 5).
MaxSeries == 6
\* Largest total_pages value a TMDb backend reports.
MaxTotalPages == 6
\* Largest links.last value a TVDb backend reports.
MaxLast == 2
\* Pages of episodes a TVDb backend holds: a later page answers 404.
MaxPage == 2
\* The year a caller supplies, and how far entry years lie from it.
BaseYear == 2000
YearSpread == 2
\* Keyword parameters one search call supplies.
MaxCriteria == 2
\* Yielded records are counted up to this number.
MaxCount == 2
\* Characters of a query string handed to imdb_suggestion.
MaxQuery == 4

(* ------------------------ program constants --------------------------- *)

OMDb_page_max == 10
TMDb_page_max == 5
MaxCandidates == 5
\* parameters.get("year") when no year is given
NoYear == 0
\* self.token = "" (an integer n > 0 is the token of the n-th login)
NoToken == 0

NotFound == "MapiNotFoundException"
ProviderError == "MapiProviderException"
NetworkError == "MapiNetworkException"

Providers == {"OMDb", "TMDb", "TVDb", "TVDbV4", "IMDb"}
TokenBased == {"TVDb", "TVDbV4"}

Chars == {"0", "1", "2", "3", "8", "9", "-", "x"}
Digits == {"0", "1", "2", "3", "8", "9"}
\* date strings a caller passes; <<>> is no date
Dates == { <<>>,
           <<"2", "0", "1", "0", "-", "1", "3">>,
           <<"1", "8", "0", "0">> }
YearArgs == {NoYear, BaseYear}
EntryYears == (BaseYear - YearSpread) .. (BaseYear + YearSpread)
KindArgs == {"absent", "movie", "series", "other"}

Min(a, b) == IF a <= b THEN a ELSE b

(* ------------------------------ state --------------------------------- *)

VARIABLES
    prov,        \* class of the instance, "none" before construction
    api_key,     \* Provider._api_key is set
    pin,         \* Provider._pin is set
    cache,       \* Provider._cache
    token,       \* TVDb.token / TVDbV4.token
    ctor,        \* how construction ended: "none", "ok" or the error raised
    gen,         \* the generator search() returned:
                 \*   "none", "suspended", "running", "finished", "closed"
    args,        \* the locals search() reads from its parameters
    depth,       \* nesting of search(): 1, or 2 inside the retry
    path,        \* the sub-search the dispatch chose
    pc,          \* where the generator stands
    exc,         \* the exception being raised, "none" otherwise
    result,      \* how the generator ended: "StopIteration" or the error
    page,        \* page of the running page loop
    remaining,   \* entries of the current response not yet visited
    last,        \* total_pages / links.last of the current response
    cands,       \* candidate series not yet visited
    found,       \* found of the innermost sub-search
    foundDate,   \* found of _search_tvdb_date
    foundSeries, \* found of _search_series / _search_series_date
    out,         \* the record last handed to the caller
    called,      \* endpoint functions called by this search() call
    io,          \* the endpoint function the last step called, or "none"
    reqPages,    \* page arguments of the title search's calls, in order
    nyield,      \* records yielded by this search() call, up to MaxCount
    nyieldTry,   \* records yielded by the current attempt, up to MaxCount
    logins,      \* logins performed by this search() call
    token0,      \* the token when search() was called
    provider,    \* the name provider_factory was called with, if it was
    response,    \* the response an endpoint function has classified
    backend,     \* the backend's content, where a run keeps it unchanged
    runs,        \* the records of each search() against that backend
    url,         \* what imdb_suggestion made of the query it was given
    request,     \* what omdb_title or omdb_search made of its arguments
    meta         \* what _lookup_movie made of the content it was given

vars == << prov, api_key, pin, cache, token, ctor, gen, args, depth, path, pc,
           exc, result, page, remaining, last, cands, found, foundDate,
           foundSeries, out, called, io, reqPages, nyield, nyieldTry, logins,
           token0, provider, response, backend, runs, url, request, meta >>

instance == << prov, api_key, pin, cache, ctor >>
loops == << page, remaining, last, cands, found, foundDate, foundSeries >>
history == << reqPages, nyield, nyieldTry, logins, token0 >>

NoArgs == [ id |-> FALSE, id_imdb |-> FALSE, title |-> FALSE, series |-> FALSE,
            date |-> <<>>, year |-> NoYear, kind |-> "None" ]
NoRecord == [ variant |-> "none", year |-> NoYear ]
NoName == [ called |-> FALSE, name |-> <<>> ]
NoResponse == [ endpoint |-> "none", status |-> 0, body |-> "none",
                raised |-> "none" ]
NoBackend == [ open |-> {}, n |-> 0, last |-> 0 ]
NoUrl == [ query |-> <<>>, year |-> NoYear, sanitized |-> <<>>, path |-> <<>>,
           raised |-> "none" ]

NoRequest == [ endpoint |-> "none", id_imdb |-> "None", title |-> "None",
               media_type |-> "None", plot |-> "None", page |-> 1,
               raised |-> "none", requested |-> FALSE ]
\* a key that a mapping does not hold
NoKey == << "no key" >>
NoContent == [ Released |-> NoKey, Year |-> NoKey, Plot |-> NoKey,
               Title |-> NoKey ]
NoMeta == [ called |-> FALSE, answer |-> "none", response |-> NoContent,
            raised |-> "none", yielded |-> FALSE,
            record |-> [ title |-> NoKey, date |-> NoKey, synopsis |-> NoKey,
                         id_imdb |-> "None", year |-> NoKey ] ]

\* No instance yet, no generator.
Fresh ==
    /\ prov = "none" /\ api_key = FALSE /\ pin = FALSE /\ cache = TRUE
    /\ token = NoToken /\ ctor = "none"
    /\ gen = "none" /\ args = NoArgs /\ depth = 0 /\ path = "none"
    /\ pc = "none" /\ exc = "none" /\ result = "none"
    /\ page = 0 /\ remaining = 0 /\ last = 0 /\ cands = 0
    /\ found = FALSE /\ foundDate = FALSE /\ foundSeries = FALSE
    /\ out = NoRecord /\ called = {} /\ io = "none" /\ reqPages = <<>>
    /\ nyield = 0 /\ nyieldTry = 0 /\ logins = 0 /\ token0 = NoToken
    /\ provider = NoName /\ response = NoResponse /\ runs = <<>>
    /\ url = NoUrl /\ request = NoRequest /\ meta = NoMeta

Init == Fresh /\ backend = NoBackend

(* ------------------------- endpoint answers --------------------------- *)
\* What each endpoint function returns ("ok") or raises, whatever it is asked.

omdb_title == {"ok", ProviderError, NetworkError, NotFound}
omdb_search == {"ok", ProviderError, NotFound, NetworkError}
tmdb_find == {"ok", ProviderError, NetworkError, NotFound}
tmdb_movies_or_series == {"ok", ProviderError, NotFound, NetworkError}
tmdb_search == {"ok", ProviderError, NetworkError, NotFound}
tvdb_login == {"ok", ProviderError, NetworkError}
tvdb_series_id == {"ok", ProviderError, NotFound, NetworkError}
tvdb_series_id_episodes_query == {"ok", ProviderError, NotFound, NetworkError}
tvdb_search_series == {"ok", ProviderError, NotFound, NetworkError}
tvdbv4_login == {"ok", ProviderError, NetworkError}
tvdbv4_search == {"ok", ProviderError, NotFound, NetworkError}
imdb_suggestion == {"ok", NetworkError}

LoginName == IF prov = "TVDbV4" THEN "tvdbv4_login" ELSE "tvdb_login"
login == IF prov = "TVDbV4" THEN tvdbv4_login ELSE tvdb_login

(* --------------------------- pure helpers ----------------------------- *)

\* mapi.utils.year_expand: a year is widened by one on both sides, no year
\* gives the unbounded window.
year_expand(year) ==
    IF year = NoYear
    THEN [ bounded |-> FALSE, from |-> 0, to |-> 0 ]
    ELSE [ bounded |-> TRUE, from |-> year - 1, to |-> year + 1 ]

\* year_from <= y <= year_to
InWindow(w, y) == (~w.bounded) \/ (w.from <= y /\ y <= w.to)

\* re.match(date_fmt, date): the pattern is matched at the start of the
\* string, and everything after the four year digits is optional.
date_fmt_match(d) ==
    /\ Len(d) >= 4
    /\ d[1] = "1" \/ d[1] = "2"
    /\ (d[1] = "1" => d[2] = "9") /\ (d[1] = "2" => d[2] = "0")
    /\ d[3] \in Digits /\ d[4] \in Digits

(* ------------------------ control transfers -------------------------- *)
\* Each step of the generator ends in exactly one of these.

NoYield == UNCHANGED << out, nyield, nyieldTry >>

\* Go on at label l.
Goto(l) == pc' = l /\ UNCHANGED << gen, exc, result >> /\ NoYield

\* A raise statement, or an endpoint call that raises: the exception starts
\* to unwind.  Inside one candidate of a fan-out it first meets the
\* fan-out's handler, elsewhere the handler of search().
Throw(e, inCandidate) ==
    /\ exc' = e
    /\ pc' = IF inCandidate THEN "raise_cand" ELSE "raise"
    /\ UNCHANGED << gen, result >> /\ NoYield

\* The generator ends: it returned (StopIteration) or an exception left it.
\* Its frame is gone, and with it the locals of the loops.
Finish(how) ==
    /\ gen' = "finished" /\ result' = how /\ pc' = "end" /\ exc' = "none"
    /\ NoYield
    /\ page' = 0 /\ remaining' = 0 /\ last' = 0 /\ cands' = 0
    /\ found' = FALSE /\ foundDate' = FALSE /\ foundSeries' = FALSE

\* yield: the record goes to the caller, the generator is suspended and
\* will go on at label l.
YieldTo(l, variant, year) ==
    /\ gen' = "suspended" /\ pc' = l /\ UNCHANGED << exc, result >>
    /\ out' = [ variant |-> variant, year |-> year ]
    /\ nyield' = Min(nyield + 1, MaxCount)
    /\ nyieldTry' = Min(nyieldTry + 1, MaxCount)

Call(name) == io' = name /\ called' = called \cup {name}
NoCall == io' = "none" /\ UNCHANGED called

Running == gen = "running"

\* What a step of the instance leaves behind for an observer: against a
\* backend kept unchanged, a call of search() opens a new run and every
\* record handed to the caller is added to the current run, named by the
\* page and the place in the page it comes from.
Observe ==
    /\ UNCHANGED << provider, response, backend, url, request, meta >>
    /\ runs' =
          IF backend = NoBackend THEN runs
          ELSE IF gen \in {"none", "finished", "closed"} /\ gen' = "suspended"
          THEN Append(runs, <<>>)
          ELSE IF gen = "running" /\ gen' = "suspended"
          THEN [ runs EXCEPT ![Len(runs)] =
                    Append(@, [ page |-> page', left |-> remaining',
                                variant |-> out'.variant ]) ]
          ELSE runs

(* ----------------------------- the caller ----------------------------- *)

\* The constructors, were the token obtained whatever the cache option.
ConstructLogs_always(p, c) == p \in TokenBased

\* The constructors, were the login performed before the credentials are
\* looked at.
Construct_login_first(p, key, pn, c, ans) ==
    /\ prov = "none"
    /\ prov' = p /\ api_key' = key /\ pin' = pn /\ cache' = c
    /\ IF p \in TokenBased /\ ~c THEN
            /\ io' = (IF p = "TVDbV4" THEN "tvdbv4_login" ELSE "tvdb_login")
            /\ IF ans # "ok" THEN ctor' = ans /\ UNCHANGED token
               ELSE IF ~key \/ (p = "TVDbV4" /\ ~pn)
               THEN ctor' = "MapiProviderException" /\ token' = token + 1
               ELSE ctor' = "ok" /\ token' = token + 1
       ELSE
            /\ io' = "none" /\ UNCHANGED token
            /\ ctor' = IF (p # "IMDb" /\ ~key) \/ (p = "TVDbV4" /\ ~pn)
                       THEN "MapiProviderException" ELSE "ok"
    /\ UNCHANGED << gen, args, depth, path, pc, exc, result, loops, out,
                    called, history >>
    /\ Observe

\* Provider.__init__ and the __init__ of the class p: key and pn say whether
\* an API key and a PIN are supplied, c is the cache option, ans the answer
\* of the login the constructor may perform.
ConstructLogs(p, c) == p \in TokenBased /\ ~c

Construct(p, key, pn, c, ans) ==
    /\ prov = "none"
    /\ prov' = p /\ api_key' = key /\ pin' = pn /\ cache' = c
    /\ IF p # "IMDb" /\ ~key THEN
            /\ ctor' = ProviderError /\ io' = "none" /\ UNCHANGED token
       ELSE IF p = "TVDbV4" /\ ~pn THEN
            /\ ctor' = ProviderError /\ io' = "none" /\ UNCHANGED token
       ELSE IF ConstructLogs(p, c) THEN
            /\ io' = (IF p = "TVDbV4" THEN "tvdbv4_login" ELSE "tvdb_login")
            /\ IF ans = "ok"
               THEN ctor' = "ok" /\ token' = token + 1
               ELSE ctor' = ans /\ UNCHANGED token
       ELSE
            /\ ctor' = "ok" /\ io' = "none" /\ UNCHANGED token
    /\ UNCHANGED << gen, args, depth, path, pc, exc, result, loops, out,
                    called, history >>
    /\ Observe

\* str.lower() on the letters the names below are written with.
lower_char(c) ==
    CASE c = "T" -> "t" [] c = "M" -> "m" [] c = "D" -> "d" [] c = "B" -> "b"
      [] c = "V" -> "v" [] c = "O" -> "o" [] c = "I" -> "i" [] c = "K" -> "k"
      [] OTHER -> c

lower(name) == [ i \in 1 .. Len(name) |-> lower_char(name[i]) ]

\* provider_factory: its table of classes.
providers ==
    [ k \in { <<"t", "m", "d", "b">>, <<"t", "v", "d", "b">>,
              <<"o", "m", "d", "b">> } |->
        CASE k = <<"t", "m", "d", "b">> -> "TMDb"
          [] k = <<"t", "v", "d", "b">> -> "TVDb"
          [] OTHER -> "OMDb" ]

\* API_ALL, and has_provider: the lower-cased name is a member of it.
API_ALL ==
    { <<"t", "v", "d", "b">>, <<"t", "v", "d", "b", "v", "4">>,
      <<"i", "m", "d", "b">>, <<"o", "m", "d", "b">>, <<"t", "m", "d", "b">> }

has_provider(name) == lower(name) \in API_ALL

\* Names a caller may hand to provider_factory.
FactoryNames ==
    { <<"t", "m", "d", "b">>, <<"T", "M", "D", "b">>, <<"t", "v", "d", "b">>,
      <<"T", "V", "D", "B">>, <<"o", "m", "d", "b">>, <<"O", "M", "D", "b">>,
      <<"i", "m", "d", "b">>, <<"t", "v", "d", "b", "v", "4">>,
      <<"k", "o", "d", "i">>, <<"K", "o", "d", "i">>, <<>> }

\* provider_factory(provider, **options) is called.
provider_factory_call(name) ==
    /\ prov = "none" /\ ctor = "none" /\ ~provider.called
    /\ provider' = [ called |-> TRUE, name |-> name ]
    /\ UNCHANGED << prov, api_key, pin, cache, token, ctor, gen, args, depth,
                    path, pc, exc, result, page, remaining, last, cands,
                    found, foundDate, foundSeries, out, called, io, reqPages,
                    nyield, nyieldTry, logins, token0, response, backend,
                    runs, url,
                    request, meta >>

\* provider_factory, were a name not in the table to give a default class.
provider_factory_default(key, pn, c, ans) ==
    /\ prov = "none" /\ ctor = "none" /\ provider.called
    /\ IF lower(provider.name) \in DOMAIN providers
       THEN Construct(providers[lower(provider.name)], key, pn, c, ans)
       ELSE Construct("OMDb", key, pn, c, ans)

\* provider_factory: the class is looked up by the lower-cased name and
\* constructed with the options; a name not in the table gives KeyError,
\* which is turned into MapiException.
provider_factory(key, pn, c, ans) ==
    /\ prov = "none" /\ ctor = "none" /\ provider.called
    /\ IF lower(provider.name) \in DOMAIN providers
       THEN Construct(providers[lower(provider.name)], key, pn, c, ans)
       ELSE /\ ctor' = "MapiException"
            /\ UNCHANGED << prov, api_key, pin, cache, token, gen, args,
                            depth, path, pc, exc, result, loops, out, called,
                            io, history >>
            /\ Observe

\* The keyword parameters a caller may pass to search().
Flags == {"id_key", "id_imdb", "id_tmdb", "id_tvdb", "title", "query", "series"}
Supplied(raw) ==
    Cardinality(raw.given) + (IF raw.date # <<>> THEN 1 ELSE 0)
    + (IF raw.year # NoYear THEN 1 ELSE 0)
RawParams ==
    { raw \in [ given : SUBSET Flags, date : Dates, year : YearArgs,
                kind : KindArgs ] : Supplied(raw) <= MaxCriteria }

\* The locals, were TVDb.search to test the imdb-id before the tvdb-id.
Locals_imdb_first(p, raw) ==
    LET has(f) == f \in raw.given
        dflt(k, d) == IF k = "absent" THEN d ELSE k
        names == has("title") \/ has("query")
    IN  CASE p = "OMDb" ->
               LET id == has("id_key") \/ has("id_imdb")
               IN  [ id |-> id, id_imdb |-> FALSE,
                     title |-> ~id /\ names, series |-> FALSE,
                     date |-> <<>>,
                     year |-> IF ~id /\ names THEN raw.year ELSE NoYear,
                     kind |-> IF id THEN dflt(raw.kind, "movie") ELSE "None" ]
          [] p = "TMDb" ->
               LET id == has("id_key") \/ has("id_tmdb")
                   imdb == ~id /\ has("id_imdb")
                   title == ~id /\ ~imdb /\ names
               IN  [ id |-> id, id_imdb |-> imdb,
                     title |-> title, series |-> FALSE,
                     date |-> <<>>,
                     year |-> IF title THEN raw.year ELSE NoYear,
                     kind |-> dflt(raw.kind, "movie") ]
          [] p \in TokenBased ->
               LET imdb == has("id_imdb")
                   id == ~imdb /\ (has("id_key") \/ has("id_tvdb"))
                   series == ~id /\ ~imdb /\ has("series")
                   free == ~id /\ ~imdb /\ ~series
                   v4 == free /\ p = "TVDbV4"
               IN  [ id |-> id, id_imdb |-> imdb,
                     title |-> free /\ names, series |-> series,
                     date |-> IF id \/ series THEN raw.date ELSE <<>>,
                     year |-> IF v4 /\ names THEN raw.year ELSE NoYear,
                     kind |-> IF v4 /\ names
                              THEN dflt(raw.kind, "None") ELSE "None" ]
          [] OTHER ->
               LET id == has("id_key") \/ has("id_imdb")
               IN  [ id |-> id, id_imdb |-> FALSE,
                     title |-> ~id /\ names, series |-> FALSE,
                     date |-> <<>>,
                     year |-> IF ~id /\ names THEN raw.year ELSE NoYear,
                     kind |-> IF ~id /\ names
                              THEN dflt(raw.kind, "None") ELSE "None" ]

\* The locals, were TMDb.search to test the title before the ids.
Locals_title_first(p, raw) ==
    LET has(f) == f \in raw.given
        dflt(k, d) == IF k = "absent" THEN d ELSE k
        names == has("title") \/ has("query")
    IN  CASE p = "OMDb" ->
               LET id == has("id_key") \/ has("id_imdb")
               IN  [ id |-> id, id_imdb |-> FALSE,
                     title |-> ~id /\ names, series |-> FALSE,
                     date |-> <<>>,
                     year |-> IF ~id /\ names THEN raw.year ELSE NoYear,
                     kind |-> IF id THEN dflt(raw.kind, "movie") ELSE "None" ]
          [] p = "TMDb" ->
               LET title == names
                   id == ~title /\ (has("id_key") \/ has("id_tmdb"))
                   imdb == ~title /\ ~id /\ has("id_imdb")
               IN  [ id |-> id, id_imdb |-> imdb,
                     title |-> title, series |-> FALSE,
                     date |-> <<>>,
                     year |-> IF title THEN raw.year ELSE NoYear,
                     kind |-> dflt(raw.kind, "movie") ]
          [] p \in TokenBased ->
               LET id == has("id_key") \/ has("id_tvdb")
                   imdb == ~id /\ has("id_imdb")
                   series == ~id /\ ~imdb /\ has("series")
                   free == ~id /\ ~imdb /\ ~series
                   v4 == free /\ p = "TVDbV4"
               IN  [ id |-> id, id_imdb |-> imdb,
                     title |-> free /\ names, series |-> series,
                     date |-> IF id \/ series THEN raw.date ELSE <<>>,
                     year |-> IF v4 /\ names THEN raw.year ELSE NoYear,
                     kind |-> IF v4 /\ names
                              THEN dflt(raw.kind, "None") ELSE "None" ]
          [] OTHER ->
               LET id == has("id_key") \/ has("id_imdb")
               IN  [ id |-> id, id_imdb |-> FALSE,
                     title |-> ~id /\ names, series |-> FALSE,
                     date |-> <<>>,
                     year |-> IF ~id /\ names THEN raw.year ELSE NoYear,
                     kind |-> IF ~id /\ names
                              THEN dflt(raw.kind, "None") ELSE "None" ]

\* The locals each search() computes from its parameters, as far as its
\* dispatch consults them: the dispatch tests the criteria in a fixed order
\* and takes the first that is present, so a criterion that comes after the
\* one taken, and a parameter the class or the sub-search taken never
\* reads, is left out (FALSE, no date, no year, kind "None").  The merged
\* title of TVDb (title or query or series) is kept where no other
\* criterion is present.
Locals(p, raw) ==
    LET has(f) == f \in raw.given
        dflt(k, d) == IF k = "absent" THEN d ELSE k
        names == has("title") \/ has("query")
    IN  CASE p = "OMDb" ->
               LET id == has("id_key") \/ has("id_imdb")
               IN  [ id |-> id, id_imdb |-> FALSE,
                     title |-> ~id /\ names, series |-> FALSE,
                     date |-> <<>>,
                     year |-> IF ~id /\ names THEN raw.year ELSE NoYear,
                     kind |-> IF id THEN dflt(raw.kind, "movie") ELSE "None" ]
          [] p = "TMDb" ->
               LET id == has("id_key") \/ has("id_tmdb")
                   imdb == ~id /\ has("id_imdb")
                   title == ~id /\ ~imdb /\ names
               IN  [ id |-> id, id_imdb |-> imdb,
                     title |-> title, series |-> FALSE,
                     date |-> <<>>,
                     year |-> IF title THEN raw.year ELSE NoYear,
                     kind |-> dflt(raw.kind, "movie") ]
          [] p \in TokenBased ->
               LET id == has("id_key") \/ has("id_tvdb")
                   imdb == ~id /\ has("id_imdb")
                   series == ~id /\ ~imdb /\ has("series")
                   free == ~id /\ ~imdb /\ ~series
                   v4 == free /\ p = "TVDbV4"
               IN  [ id |-> id, id_imdb |-> imdb,
                     title |-> free /\ names, series |-> series,
                     date |-> IF id \/ series THEN raw.date ELSE <<>>,
                     year |-> IF v4 /\ names THEN raw.year ELSE NoYear,
                     kind |-> IF v4 /\ names
                              THEN dflt(raw.kind, "None") ELSE "None" ]
          [] OTHER ->
               LET id == has("id_key") \/ has("id_imdb")
               IN  [ id |-> id, id_imdb |-> FALSE,
                     title |-> ~id /\ names, series |-> FALSE,
                     date |-> <<>>,
                     year |-> IF ~id /\ names THEN raw.year ELSE NoYear,
                     kind |-> IF ~id /\ names
                              THEN dflt(raw.kind, "None") ELSE "None" ]

\* The locals the parameters of RawParams give, by class.
LocalsOf == [ p \in Providers |-> { Locals(p, raw) : raw \in RawParams } ]

SearchArgs == IF prov \in Providers THEN LocalsOf[prov] ELSE {}

\* Search, were it to make sure of a token before it returns the generator.
Search_eager_login(a) ==
    /\ ctor = "ok"
    /\ gen \in {"none", "finished", "closed"}
    /\ gen' = "suspended"
    /\ args' = a
    /\ depth' = 1 /\ path' = "none" /\ pc' = "start"
    /\ exc' = "none" /\ result' = "none"
    /\ page' = 0 /\ remaining' = 0 /\ last' = 0 /\ cands' = 0
    /\ found' = FALSE /\ foundDate' = FALSE /\ foundSeries' = FALSE
    /\ out' = NoRecord /\ called' = {} /\ reqPages' = <<>>
    /\ nyield' = 0 /\ nyieldTry' = 0 /\ logins' = 0 /\ token0' = token
    /\ IF prov \in TokenBased /\ token = NoToken
       THEN token' = token + 1 /\ io' = LoginName
       ELSE token' = token /\ io' = "none"
    /\ UNCHANGED instance
    /\ Observe

\* The caller calls search(id_key, **parameters), a being the locals the
\* parameters give: a generator is made and nothing of its body runs.
Search(a) ==
    /\ ctor = "ok"
    /\ gen \in {"none", "finished", "closed"}
    /\ gen' = "suspended"
    /\ args' = a
    /\ depth' = 1 /\ path' = "none" /\ pc' = "start"
    /\ exc' = "none" /\ result' = "none"
    /\ page' = 0 /\ remaining' = 0 /\ last' = 0 /\ cands' = 0
    /\ found' = FALSE /\ foundDate' = FALSE /\ foundSeries' = FALSE
    /\ out' = NoRecord /\ called' = {} /\ io' = "none" /\ reqPages' = <<>>
    /\ nyield' = 0 /\ nyieldTry' = 0 /\ logins' = 0 /\ token0' = token
    /\ UNCHANGED << instance, token >>
    /\ Observe

\* The caller takes the record it was handed, if any, and asks for the
\* next one: next(generator).
Request ==
    /\ gen = "suspended"
    /\ gen' = "running"
    /\ out' = NoRecord
    /\ NoCall
    /\ UNCHANGED << instance, token, args, depth, path, pc, exc, result,
                    loops, reqPages, nyield, nyieldTry, logins, token0 >>
    /\ Observe

\* The caller drops the generator without asking for more: it is closed at
\* the yield (or before its first statement) and no handler of the provider
\* catches that.
Close ==
    /\ gen = "suspended"
    /\ gen' = "closed" /\ pc' = "end"
    /\ page' = 0 /\ remaining' = 0 /\ last' = 0 /\ cands' = 0
    /\ found' = FALSE /\ foundDate' = FALSE /\ foundSeries' = FALSE
    /\ out' = NoRecord
    /\ NoCall
    /\ UNCHANGED << instance, token, args, depth, path, exc, result,
                    reqPages, nyield, nyieldTry, logins, token0 >>
    /\ Observe

\* An exception no handler of the provider catches leaves the generator.
Propagate ==
    /\ Running /\ pc = "raise"
    /\ ~(prov \in TokenBased /\ exc = ProviderError)
    /\ Finish(exc)
    /\ NoCall
    /\ UNCHANGED << instance, token, args, depth, path, history >>
    /\ Observe

\* The body of the generator is through: the caller's next() ends with
\* StopIteration.
Return ==
    /\ Running /\ pc = "return"
    /\ Finish("StopIteration")
    /\ NoCall
    /\ UNCHANGED << instance, token, args, depth, path, history >>
    /\ Observe

(* ------------------------------- OMDb --------------------------------- *)

\* OMDb.search: the dispatch, run by the first next().
OMDb_search ==
    /\ Running /\ prov = "OMDb" /\ pc = "start"
    /\ IF args.id THEN
            /\ path' = "lookup" /\ Goto("omdb_title")
            /\ UNCHANGED << page, found >>
       ELSE IF args.title THEN
            /\ path' = "title" /\ page' = 1 /\ found' = FALSE
            /\ Goto("omdb_search")
       ELSE
            /\ Throw(NotFound, FALSE)
            /\ UNCHANGED << path, page, found >>
    /\ NoCall
    /\ UNCHANGED << instance, token, args, depth, remaining, last, cands,
                    foundDate, foundSeries, history >>
    /\ Observe

\* OMDb._lookup_movie called with an identifier: one omdb_title call, one
\* MetadataMovie whatever kind was asked for.
OMDb_lookup_movie(ans, y) ==
    /\ Running /\ prov = "OMDb" /\ pc = "omdb_title"
    /\ Call("omdb_title")
    /\ IF ans = "ok"
       THEN YieldTo("omdb_yielded", "MetadataMovie", y)
       ELSE Throw(ans, FALSE)
    /\ UNCHANGED << instance, token, args, depth, path, loops, reqPages,
                    logins, token0 >>
    /\ Observe

\* OMDb._search_movie: one omdb_search call for the current page; "no
\* results" ends the page loop.
OMDb_after_loop == IF found THEN Goto("return") ELSE Throw(NotFound, FALSE)

OMDb_search_movie_page(ans, n) ==
    /\ Running /\ prov = "OMDb" /\ pc = "omdb_search"
    /\ Call("omdb_search")
    /\ reqPages' = Append(reqPages, page)
    /\ IF ans = "ok" THEN remaining' = n /\ Goto("omdb_entry")
       ELSE IF ans = NotFound THEN OMDb_after_loop /\ UNCHANGED remaining
       ELSE Throw(ans, FALSE) /\ UNCHANGED remaining
    /\ UNCHANGED << instance, token, args, depth, path, page, last, cands,
                    found, foundDate, foundSeries, logins, token0 >>
    /\ Observe

\* OMDb._search_movie: one entry of the page; an entry inside the year
\* window is looked up with omdb_title and the record yielded.
OMDb_search_movie_entry(y, ans) ==
    /\ Running /\ prov = "OMDb" /\ pc = "omdb_entry" /\ remaining > 0
    /\ remaining' = remaining - 1
    /\ IF InWindow(year_expand(args.year), y) THEN
            /\ Call("omdb_title")
            /\ IF ans = "ok"
               THEN YieldTo("omdb_yielded", "MetadataMovie", y)
               ELSE Throw(ans, FALSE)
       ELSE
            /\ NoCall /\ Goto("omdb_entry")
    /\ UNCHANGED << instance, token, args, depth, path, page, last, cands,
                    found, foundDate, foundSeries, reqPages, logins, token0 >>
    /\ Observe

\* The generator is resumed after its yield: the direct lookup returns, the
\* title search sets found and goes on with the page.
OMDb_resume ==
    /\ Running /\ prov = "OMDb" /\ pc = "omdb_yielded"
    /\ IF path = "lookup"
       THEN Goto("return") /\ UNCHANGED found
       ELSE found' = TRUE /\ Goto("omdb_entry")
    /\ NoCall
    /\ UNCHANGED << instance, token, args, depth, path, page, remaining, last,
                    cands, foundDate, foundSeries, history >>
    /\ Observe

\* The end of a page, were the page_max test missing.
OMDb_search_movie_next_uncapped ==
    /\ Running /\ prov = "OMDb" /\ pc = "omdb_entry" /\ remaining = 0
    /\ page' = page + 1 /\ Goto("omdb_search")
    /\ NoCall
    /\ UNCHANGED << instance, token, args, depth, path, remaining, last,
                    cands, found, foundDate, foundSeries, history >>
    /\ Observe

\* OMDb._search_movie: the page is done; stop at page_max, else next page.
OMDb_search_movie_next ==
    /\ Running /\ prov = "OMDb" /\ pc = "omdb_entry" /\ remaining = 0
    /\ IF page >= OMDb_page_max
       THEN OMDb_after_loop /\ UNCHANGED page
       ELSE page' = page + 1 /\ Goto("omdb_search")
    /\ NoCall
    /\ UNCHANGED << instance, token, args, depth, path, remaining, last,
                    cands, found, foundDate, foundSeries, history >>
    /\ Observe

(* ------------------------------- TMDb --------------------------------- *)

\* TMDb.search: the dispatch, run by the first next().
TMDb_search ==
    /\ Running /\ prov = "TMDb" /\ pc = "start"
    /\ IF args.id THEN
            /\ path' = "id_tmdb" /\ Goto("tmdb_movies_or_series")
            /\ UNCHANGED << page, found >>
       ELSE IF args.id_imdb THEN
            /\ path' = "id_imdb" /\ Goto("tmdb_find")
            /\ UNCHANGED << page, found >>
       ELSE IF args.title THEN
            /\ path' = "title" /\ page' = 1 /\ found' = FALSE
            /\ Goto("tmdb_search")
       ELSE
            /\ Throw(NotFound, FALSE)
            /\ UNCHANGED << path, page, found >>
    /\ NoCall
    /\ UNCHANGED << instance, token, args, depth, remaining, last, cands,
                    foundDate, foundSeries, history >>
    /\ Observe

\* TMDb._search_id_tmdb: one call, one record whose class follows kind.
TMDb_search_id_tmdb(ans, y) ==
    /\ Running /\ prov = "TMDb" /\ pc = "tmdb_movies_or_series"
    /\ Call("tmdb_movies_or_series")
    /\ IF ans # "ok" THEN Throw(ans, FALSE)
       ELSE IF args.kind = "movie"
       THEN YieldTo("tmdb_yielded", "MetadataMovie", y)
       ELSE YieldTo("tmdb_yielded", "MetadataTelevision", y)
    /\ UNCHANGED << instance, token, args, depth, path, loops, reqPages,
                    logins, token0 >>
    /\ Observe

\* TMDb._search_id_imdb: one tmdb_find call; movies and tvs say whether
\* movie_results and tv_results hold an entry.  The movie branch reads
\* movie_results[0]; the other branch evaluates tv_results[0], drops it and
\* reads "name" from the whole response, which has no such key.
TMDb_search_id_imdb(ans, movies, tvs, y) ==
    /\ Running /\ prov = "TMDb" /\ pc = "tmdb_find"
    /\ Call("tmdb_find")
    /\ IF ans # "ok" THEN Throw(ans, FALSE)
       ELSE IF ~movies /\ ~tvs THEN Throw(NotFound, FALSE)
       ELSE IF args.kind = "movie" THEN
            IF movies
            THEN YieldTo("tmdb_yielded", "MetadataMovie", y)
            ELSE Throw("IndexError", FALSE)
       ELSE IF tvs THEN Throw("KeyError", FALSE)
       ELSE Throw("IndexError", FALSE)
    /\ UNCHANGED << instance, token, args, depth, path, loops, reqPages,
                    logins, token0 >>
    /\ Observe

\* TMDb._search_title: one tmdb_search call for the current page; n entries
\* come back and the backend reports tp pages in total.
TMDb_search_title_page(ans, n, tp) ==
    /\ Running /\ prov = "TMDb" /\ pc = "tmdb_search"
    /\ Call("tmdb_search")
    /\ reqPages' = Append(reqPages, page)
    /\ IF ans = "ok"
       THEN remaining' = n /\ last' = tp /\ Goto("tmdb_entry")
       ELSE Throw(ans, FALSE) /\ UNCHANGED << remaining, last >>
    /\ UNCHANGED << instance, token, args, depth, path, page, cands,
                    found, foundDate, foundSeries, logins, token0 >>
    /\ Observe

\* How one entry of a page reads: "ok", or the exception its fields raise
\* while the record is built ("KeyError": an expected key is missing).
EntryShapes == {"ok", "ValueError", "AttributeError", "KeyError"}

\* TMDb._search_title: one entry of the page.  Only ValueError is caught.
TMDb_search_title_entry(shape, y) ==
    /\ Running /\ prov = "TMDb" /\ pc = "tmdb_entry" /\ remaining > 0
    /\ remaining' = remaining - 1
    /\ IF args.kind \notin {"movie", "series"} THEN Throw(ProviderError, FALSE)
       ELSE IF shape = "ValueError" THEN Goto("tmdb_entry")
       ELSE IF shape # "ok" THEN Throw(shape, FALSE)
       ELSE IF ~InWindow(year_expand(args.year), y) THEN Goto("tmdb_entry")
       ELSE IF args.kind = "movie"
       THEN YieldTo("tmdb_yielded", "MetadataMovie", y)
       ELSE YieldTo("tmdb_yielded", "MetadataTelevision", y)
    /\ NoCall
    /\ UNCHANGED << instance, token, args, depth, path, page, last, cands,
                    found, foundDate, foundSeries, reqPages, logins, token0 >>
    /\ Observe

\* The generator is resumed after its yield: an identifier lookup returns,
\* the title search sets found and goes on with the page.
TMDb_resume ==
    /\ Running /\ prov = "TMDb" /\ pc = "tmdb_yielded"
    /\ IF path = "title"
       THEN found' = TRUE /\ Goto("tmdb_entry")
       ELSE Goto("return") /\ UNCHANGED found
    /\ NoCall
    /\ UNCHANGED << instance, token, args, depth, path, page, remaining, last,
                    cands, foundDate, foundSeries, history >>
    /\ Observe

\* TMDb._search_title: the page is done; stop at the reported total, stop
\* at page_max, else next page; after the loop NotFound if nothing matched.
TMDb_search_title_next ==
    /\ Running /\ prov = "TMDb" /\ pc = "tmdb_entry" /\ remaining = 0
    /\ IF page = last \/ page >= TMDb_page_max THEN
            /\ IF found THEN Goto("return") ELSE Throw(NotFound, FALSE)
            /\ UNCHANGED page
       ELSE page' = page + 1 /\ Goto("tmdb_search")
    /\ NoCall
    /\ UNCHANGED << instance, token, args, depth, path, remaining, last,
                    cands, found, foundDate, foundSeries, history >>
    /\ Observe

(* ------------------------------- IMDb --------------------------------- *)

\* IMDb.search: the dispatch, run by the first next().
IMDb_search ==
    /\ Running /\ prov = "IMDb" /\ pc = "start"
    /\ IF args.id THEN
            /\ path' = "lookup" /\ Goto("imdb_title")
            /\ UNCHANGED found
       ELSE IF args.title THEN
            /\ path' = "title" /\ found' = FALSE
            /\ Goto("imdb_suggestion")
       ELSE
            /\ Throw(NotFound, FALSE)
            /\ UNCHANGED << path, found >>
    /\ NoCall
    /\ UNCHANGED << instance, token, args, depth, page, remaining, last,
                    cands, foundDate, foundSeries, history >>
    /\ Observe

\* IMDb._lookup_movie: one omdb_title call, one MetadataMovie built with no
\* year.
IMDb_lookup_movie(ans) ==
    /\ Running /\ prov = "IMDb" /\ pc = "imdb_title"
    /\ Call("omdb_title")
    /\ IF ans = "ok"
       THEN YieldTo("imdb_yielded", "MetadataMovie", NoYear)
       ELSE Throw(ans, FALSE)
    /\ UNCHANGED << instance, token, args, depth, path, loops, reqPages,
                    logins, token0 >>
    /\ Observe

\* IMDb._search_movie: the one imdb_suggestion call; the year goes into the
\* query string and n entries come back.
IMDb_search_movie_call(ans, n) ==
    /\ Running /\ prov = "IMDb" /\ pc = "imdb_suggestion"
    /\ Call("imdb_suggestion")
    /\ IF ans = "ok"
       THEN remaining' = n /\ Goto("imdb_entry")
       ELSE Throw(ans, FALSE) /\ UNCHANGED remaining
    /\ UNCHANGED << instance, token, args, depth, path, page, last, cands,
                    found, foundDate, foundSeries, reqPages, logins, token0 >>
    /\ Observe

\* The qid of a suggestion entry: movie-like, series-like, another kind, or
\* no qid key at all.
Qids == {"movie", "tvSeries", "videoGame", "missing"}

\* IMDb._search_movie: one entry; found is set for every entry, the entry
\* is yielded when its qid is in the bucket of the kind asked for.
IMDb_search_movie_entry(qid, y) ==
    /\ Running /\ prov = "IMDb" /\ pc = "imdb_entry" /\ remaining > 0
    /\ remaining' = remaining - 1
    /\ found' = TRUE
    /\ IF args.kind \notin {"movie", "series"} THEN Throw(ProviderError, FALSE)
       ELSE IF qid = "missing" THEN Throw("KeyError", FALSE)
       ELSE IF args.kind = "movie" /\ qid = "movie"
       THEN YieldTo("imdb_yielded", "MetadataMovie", y)
       ELSE IF args.kind = "series" /\ qid = "tvSeries"
       THEN YieldTo("imdb_yielded", "MetadataTelevision", y)
       ELSE Goto("imdb_entry")
    /\ NoCall
    /\ UNCHANGED << instance, token, args, depth, path, page, last, cands,
                    foundDate, foundSeries, reqPages, logins, token0 >>
    /\ Observe

\* The generator is resumed after its yield.
IMDb_resume ==
    /\ Running /\ prov = "IMDb" /\ pc = "imdb_yielded"
    /\ IF path = "lookup" THEN Goto("return") ELSE Goto("imdb_entry")
    /\ NoCall
    /\ UNCHANGED << instance, token, args, depth, path, loops, history >>
    /\ Observe

\* IMDb._search_movie: after the last entry, NotFound if found was never set.
IMDb_search_movie_end ==
    /\ Running /\ prov = "IMDb" /\ pc = "imdb_entry" /\ remaining = 0
    /\ IF found THEN Goto("return") ELSE Throw(NotFound, FALSE)
    /\ NoCall
    /\ UNCHANGED << instance, token, args, depth, path, loops, history >>
    /\ Observe

(* -------------------------- TVDb and TVDbV4 --------------------------- *)
\* The two classes hold the same text for every sub-search but the free-text
\* one; one definition stands for both.

InFanout == path \in {"series", "series_date"}
HasDate == path \in {"tvdb_date", "series_date"}

\* TVDb.search / TVDbV4.search: the dispatch inside the try block.
TVDb_search ==
    /\ Running /\ prov \in TokenBased /\ pc = "start"
    /\ IF args.id /\ args.date # <<>> THEN
            path' = "tvdb_date" /\ Goto("tvdb_series_id")
       ELSE IF args.id THEN
            path' = "id_tvdb" /\ Goto("tvdb_series_id")
       ELSE IF args.id_imdb THEN
            path' = "id_imdb" /\ Goto("tvdb_search_series")
       ELSE IF args.series /\ args.date # <<>> THEN
            IF ~date_fmt_match(args.date)
            THEN Throw(ProviderError, FALSE) /\ UNCHANGED path
            ELSE path' = "series_date" /\ Goto("tvdb_search_series")
       ELSE IF args.series THEN
            path' = "series" /\ Goto("tvdb_search_series")
       ELSE IF prov = "TVDbV4" /\ args.title THEN
            path' = "query" /\ Goto("tvdbv4_search")
       ELSE
            Throw(NotFound, FALSE) /\ UNCHANGED path
    /\ found' = FALSE /\ foundDate' = FALSE /\ foundSeries' = FALSE
    /\ NoCall
    /\ UNCHANGED << instance, token, args, depth, page, remaining, last,
                    cands, history >>
    /\ Observe

\* The series search, were every series of the response a candidate.
TVDb_search_series_uncapped(ans, n) ==
    /\ Running /\ prov \in TokenBased /\ pc = "tvdb_search_series"
    /\ Call("tvdb_search_series")
    /\ IF ans # "ok" THEN Throw(ans, FALSE) /\ UNCHANGED cands
       ELSE IF path = "id_imdb" THEN Goto("tvdb_series_id") /\ UNCHANGED cands
       ELSE cands' = n /\ Goto("tvdb_candidate")
    /\ UNCHANGED << instance, token, args, depth, path, page, remaining, last,
                    found, foundDate, foundSeries, reqPages, logins, token0 >>
    /\ Observe

\* The tvdb_search_series call of _search_id_imdb (first result only),
\* _search_series and _search_series_date (the first MaxCandidates results).
TVDb_search_series(ans, n) ==
    /\ Running /\ prov \in TokenBased /\ pc = "tvdb_search_series"
    /\ Call("tvdb_search_series")
    /\ IF ans # "ok" THEN Throw(ans, FALSE) /\ UNCHANGED cands
       ELSE IF path = "id_imdb" THEN Goto("tvdb_series_id") /\ UNCHANGED cands
       ELSE cands' = Min(n, MaxCandidates) /\ Goto("tvdb_candidate")
    /\ UNCHANGED << instance, token, args, depth, path, page, remaining, last,
                    found, foundDate, foundSeries, reqPages, logins, token0 >>
    /\ Observe

\* _search_series / _search_series_date: the next candidate series, or the
\* end of the loop with NotFound when found was never set.
TVDb_candidate ==
    /\ Running /\ prov \in TokenBased /\ pc = "tvdb_candidate"
    /\ IF cands > 0 THEN
            /\ cands' = cands - 1 /\ found' = FALSE /\ foundDate' = FALSE
            /\ Goto("tvdb_series_id")
       ELSE
            /\ IF foundSeries
               THEN Goto("return") ELSE Throw(NotFound, FALSE)
            /\ UNCHANGED << cands, found, foundDate >>
    /\ NoCall
    /\ UNCHANGED << instance, token, args, depth, path, page, remaining, last,
                    foundSeries, history >>
    /\ Observe

\* _search_id_tvdb: the tvdb_series_id call that fetches the series record.
TVDb_search_id_tvdb(ans) ==
    /\ Running /\ prov \in TokenBased /\ pc = "tvdb_series_id"
    /\ Call("tvdb_series_id")
    /\ IF ans = "ok"
       THEN page' = 1 /\ found' = FALSE /\ Goto("tvdb_episodes")
       ELSE Throw(ans, InFanout) /\ UNCHANGED << page, found >>
    /\ UNCHANGED << instance, token, args, depth, path, remaining, last,
                    cands, foundDate, foundSeries, reqPages, logins, token0 >>
    /\ Observe

\* _search_id_tvdb: the episode query for the current page; n entries come
\* back and the backend reports l as the last page.  The backend holds
\* MaxPage pages and answers 404 beyond them.
TVDb_search_id_tvdb_page(ans, n, l) ==
    /\ Running /\ prov \in TokenBased /\ pc = "tvdb_episodes"
    /\ page > MaxPage => ans = NotFound
    /\ Call("tvdb_series_id_episodes_query")
    /\ IF ans = "ok"
       THEN remaining' = n /\ last' = l /\ Goto("tvdb_entry")
       ELSE Throw(ans, InFanout) /\ UNCHANGED << remaining, last >>
    /\ UNCHANGED << instance, token, args, depth, path, page, cands, found,
                    foundDate, foundSeries, reqPages, logins, token0 >>
    /\ Observe

\* _search_id_tvdb: one entry of the page.  AttributeError and ValueError
\* skip the entry.  A record that _search_tvdb_date filters out (its date
\* does not start with the date asked for) is not passed on and the inner
\* generator is resumed at once; _search_series sets its found before it
\* passes a record on, _search_tvdb_date likewise.
TVDb_search_id_tvdb_entry(shape, dateMatch) ==
    /\ Running /\ prov \in TokenBased /\ pc = "tvdb_entry" /\ remaining > 0
    /\ remaining' = remaining - 1
    /\ IF shape \in {"AttributeError", "ValueError"} THEN
            Goto("tvdb_entry") /\ UNCHANGED << found, foundDate, foundSeries >>
       ELSE IF shape # "ok" THEN
            Throw(shape, InFanout) /\ UNCHANGED << found, foundDate, foundSeries >>
       ELSE IF HasDate /\ ~dateMatch THEN
            found' = TRUE /\ Goto("tvdb_entry") /\ UNCHANGED << foundDate, foundSeries >>
       ELSE
            /\ foundDate' = (IF HasDate THEN TRUE ELSE foundDate)
            /\ foundSeries' = (IF path = "series" THEN TRUE ELSE foundSeries)
            /\ YieldTo("tvdb_yielded", "MetadataTelevision", NoYear)
            /\ UNCHANGED found
    /\ NoCall
    /\ UNCHANGED << instance, token, args, depth, path, page, last, cands,
                    reqPages, logins, token0 >>
    /\ Observe

\* The generator is resumed after its yield: _search_id_tvdb sets found,
\* the free-text search has nothing to do.
TVDb_resume ==
    /\ Running /\ prov \in TokenBased /\ pc = "tvdb_yielded"
    /\ IF path = "query"
       THEN Goto("tvdbv4_entry") /\ UNCHANGED found
       ELSE found' = TRUE /\ Goto("tvdb_entry")
    /\ NoCall
    /\ UNCHANGED << instance, token, args, depth, path, page, remaining, last,
                    cands, foundDate, foundSeries, history >>
    /\ Observe

\* _search_id_tvdb: the page is done.  The loop ends when the page equals
\* the reported last page; then NotFound if nothing was yielded, also from
\* _search_tvdb_date if nothing passed its filter; _search_series_date sets
\* found once a candidate is through.
TVDb_search_id_tvdb_next ==
    /\ Running /\ prov \in TokenBased /\ pc = "tvdb_entry" /\ remaining = 0
    /\ IF page # last THEN
            page' = page + 1 /\ Goto("tvdb_episodes") /\ UNCHANGED foundSeries
       ELSE IF ~found \/ (HasDate /\ ~foundDate) THEN
            Throw(NotFound, InFanout) /\ UNCHANGED << page, foundSeries >>
       ELSE IF InFanout THEN
            /\ foundSeries' = (IF path = "series_date" THEN TRUE ELSE foundSeries)
            /\ Goto("tvdb_candidate") /\ UNCHANGED page
       ELSE
            Goto("return") /\ UNCHANGED << page, foundSeries >>
    /\ NoCall
    /\ UNCHANGED << instance, token, args, depth, path, remaining, last,
                    cands, found, foundDate, history >>
    /\ Observe

\* The loop over the candidates, were its handler missing.
TVDb_candidate_except_none ==
    /\ Running /\ prov \in TokenBased /\ pc = "raise_cand"
    /\ pc' = "raise" /\ UNCHANGED exc
    /\ UNCHANGED << gen, result >> /\ NoYield
    /\ NoCall
    /\ UNCHANGED << instance, token, args, depth, path, loops, history >>
    /\ Observe

\* except MapiNotFoundException: continue, in the loop over the candidates
\* of _search_series and _search_series_date; any other exception goes on
\* to the caller of the sub-search.
TVDb_candidate_except ==
    /\ Running /\ prov \in TokenBased /\ pc = "raise_cand"
    /\ IF exc = NotFound
       THEN exc' = "none" /\ pc' = "tvdb_candidate"
       ELSE pc' = "raise" /\ UNCHANGED exc
    /\ UNCHANGED << gen, result >> /\ NoYield
    /\ NoCall
    /\ UNCHANGED << instance, token, args, depth, path, loops, history >>
    /\ Observe

\* The handler of search(), were the one of TVDbV4 to raise the provider
\* error again without a login.
TVDb_search_except_v4_raises(ans) ==
    /\ Running /\ prov \in TokenBased /\ pc = "raise" /\ exc = ProviderError
    /\ IF token = NoToken /\ prov = "TVDb" THEN
            /\ Call(LoginName)
            /\ logins' = logins + 1
            /\ IF ans = "ok" THEN
                    /\ token' = token + 1
                    /\ depth' = depth + 1
                    /\ path' = "none" /\ pc' = "start" /\ exc' = "none"
                    /\ nyieldTry' = 0
                    /\ UNCHANGED << gen, result, out, nyield >>
                    /\ UNCHANGED loops
               ELSE
                    /\ Finish(ans)
                    /\ UNCHANGED << token, depth, path >>
       ELSE
            /\ ans = "ok"
            /\ NoCall
            /\ Finish(exc)
            /\ UNCHANGED << token, depth, path, logins >>
    /\ UNCHANGED << instance, args, reqPages, token0 >>
    /\ Observe

\* The handler of search(), were it to catch every exception of the library.
TVDb_search_except_any(ans) ==
    /\ Running /\ prov \in TokenBased /\ pc = "raise"
    /\ IF token = NoToken THEN
            /\ Call(LoginName)
            /\ logins' = logins + 1
            /\ IF ans = "ok" THEN
                    /\ token' = token + 1
                    /\ depth' = depth + 1
                    /\ path' = "none" /\ pc' = "start" /\ exc' = "none"
                    /\ nyieldTry' = 0
                    /\ UNCHANGED << gen, result, out, nyield >>
                    /\ UNCHANGED loops
               ELSE
                    /\ Finish(ans)
                    /\ UNCHANGED << token, depth, path >>
       ELSE
            /\ ans = "ok"
            /\ Finish(exc)
            /\ NoCall
            /\ UNCHANGED << token, depth, path, logins >>
    /\ UNCHANGED << instance, args, reqPages, token0 >>
    /\ Observe

\* The handler of search(), were its test of the token missing.
TVDb_search_except_always(ans) ==
    /\ Running /\ prov \in TokenBased /\ pc = "raise" /\ exc = ProviderError
    /\ Call(LoginName)
    /\ logins' = logins + 1
    /\ IF ans = "ok" THEN
            /\ token' = token + 1
            /\ depth' = depth + 1
            /\ path' = "none" /\ pc' = "start" /\ exc' = "none"
            /\ nyieldTry' = 0
            /\ UNCHANGED << gen, result, out, nyield >>
            /\ UNCHANGED loops
       ELSE
            /\ Finish(ans)
            /\ UNCHANGED << token, depth, path >>
    /\ UNCHANGED << instance, args, reqPages, token0 >>
    /\ Observe

\* except MapiProviderException of search(): with an empty token, log in,
\* store the token and run search() again from inside the handler; with a
\* token, raise again.  An exception of the login or of the nested search()
\* leaves the handler, and with it the generator.
TVDb_search_except(ans) ==
    /\ Running /\ prov \in TokenBased /\ pc = "raise" /\ exc = ProviderError
    /\ IF token = NoToken THEN
            /\ Call(LoginName)
            /\ logins' = logins + 1
            /\ IF ans = "ok" THEN
                    /\ token' = token + 1
                    /\ depth' = depth + 1
                    /\ path' = "none" /\ pc' = "start" /\ exc' = "none"
                    /\ nyieldTry' = 0
                    /\ UNCHANGED << gen, result, out, nyield >>
                    /\ UNCHANGED loops
               ELSE
                    /\ Finish(ans)
                    /\ UNCHANGED << token, depth, path >>
       ELSE
            /\ ans = "ok"
            /\ NoCall
            /\ Finish(exc)
            /\ UNCHANGED << token, depth, path, logins >>
    /\ UNCHANGED << instance, args, reqPages, token0 >>
    /\ Observe

\* TVDbV4._search: the one tvdbv4_search call; n entries come back.
TVDbV4_search(ans, n) ==
    /\ Running /\ prov = "TVDbV4" /\ pc = "tvdbv4_search"
    /\ Call("tvdbv4_search")
    /\ IF ans = "ok"
       THEN remaining' = n /\ Goto("tvdbv4_entry")
       ELSE Throw(ans, FALSE) /\ UNCHANGED remaining
    /\ UNCHANGED << instance, token, args, depth, path, page, last, cands,
                    found, foundDate, foundSeries, reqPages, logins, token0 >>
    /\ Observe

\* TVDbV4._search: one entry.  found is set first, then remote_ids is read,
\* then the record is built for kind series or movie; no exception of an
\* entry is handled but MapiNotFoundException, which is raised again.
TVDbV4_search_entry(shape, y) ==
    /\ Running /\ prov = "TVDbV4" /\ pc = "tvdbv4_entry" /\ remaining > 0
    /\ remaining' = remaining - 1
    /\ found' = TRUE
    /\ IF shape = "KeyError" THEN Throw("KeyError", FALSE)
       ELSE IF args.kind \notin {"movie", "series"} THEN Throw(ProviderError, FALSE)
       ELSE IF shape # "ok" THEN Throw(shape, FALSE)
       ELSE IF args.kind = "series"
       THEN YieldTo("tvdb_yielded", "MetadataTelevision", y)
       ELSE YieldTo("tvdb_yielded", "MetadataMovie", y)
    /\ NoCall
    /\ UNCHANGED << instance, token, args, depth, path, page, last, cands,
                    foundDate, foundSeries, reqPages, logins, token0 >>
    /\ Observe

\* TVDbV4._search: after the last entry, NotFound if found was never set.
TVDbV4_search_end ==
    /\ Running /\ prov = "TVDbV4" /\ pc = "tvdbv4_entry" /\ remaining = 0
    /\ IF found THEN Goto("return") ELSE Throw(NotFound, FALSE)
    /\ NoCall
    /\ UNCHANGED << instance, token, args, depth, path, loops, history >>
    /\ Observe

(* ---------------------- endpoint classification ----------------------- *)
\* What each endpoint function does with the (status, content) pair that
\* request_json hands it: "ok" when it returns, else the exception raised.
\* A content is "empty" (no key at all), "noresults" (a body that reports
\* an error or holds none of the results asked for) or "results".

Statuses == {200, 401, 404, 405, 422, 500}
Contents == {"empty", "noresults", "results"}

omdb_title_raises(status, content) ==
    IF status = 401 THEN ProviderError
    ELSE IF status # 200 THEN NetworkError
    ELSE IF content = "noresults" THEN NotFound
    ELSE "ok"

omdb_search_raises(status, content) ==
    IF status = 401 THEN ProviderError
    ELSE IF content = "noresults" THEN NotFound
    ELSE IF content = "empty" \/ status # 200 THEN NetworkError
    ELSE "ok"

tmdb_find_raises(status, content) ==
    IF status = 401 THEN ProviderError
    ELSE IF status # 200 \/ content = "empty" THEN NetworkError
    ELSE IF status = 404 \/ content # "results" THEN NotFound
    ELSE "ok"

tmdb_movies_or_series_raises(status, content) ==
    IF status = 401 THEN ProviderError
    ELSE IF status = 404 THEN NotFound
    ELSE IF status # 200 \/ content = "empty" THEN NetworkError
    ELSE "ok"

tmdb_search_raises(status, content) ==
    IF status = 401 THEN ProviderError
    ELSE IF status # 200 \/ content = "empty" THEN NetworkError
    ELSE IF status = 404 \/ status = 422 \/ content # "results" THEN NotFound
    ELSE "ok"

\* tvdb_login, tvdb_refresh_token and tvdbv4_login
tvdb_login_raises(status, content) ==
    IF status = 401 THEN ProviderError
    ELSE IF status # 200 \/ content # "results" THEN NetworkError
    ELSE "ok"

\* tvdb_episodes_id; its "noresults" content is the invalidLanguage error
tvdb_episodes_id_raises(status, content) ==
    IF status = 401 THEN ProviderError
    ELSE IF status = 404 THEN NotFound
    ELSE IF status = 200 /\ content = "noresults" THEN NotFound
    ELSE IF status # 200 \/ content # "results" THEN NetworkError
    ELSE "ok"

\* tvdb_series_id, tvdb_series_id_episodes, tvdb_series_id_episodes_query
tvdb_series_id_raises(status, content) ==
    IF status = 401 THEN ProviderError
    ELSE IF status = 404 THEN NotFound
    ELSE IF status # 200 \/ content # "results" THEN NetworkError
    ELSE "ok"

\* tvdb_search_series and tvdbv4_search
tvdb_search_series_raises(status, content) ==
    IF status = 401 THEN ProviderError
    ELSE IF status = 405 THEN ProviderError
    ELSE IF status = 404 THEN NotFound
    ELSE IF status # 200 \/ content # "results" THEN NetworkError
    ELSE "ok"

imdb_suggestion_raises(status, content) ==
    IF status # 200 THEN NetworkError ELSE "ok"

Endpoints ==
    { "omdb_title", "omdb_search", "tmdb_find", "tmdb_movies_or_series",
      "tmdb_search", "tvdb_login", "tvdb_refresh_token", "tvdb_episodes_id",
      "tvdb_series_id", "tvdb_series_id_episodes",
      "tvdb_series_id_episodes_query", "tvdb_search_series", "tvdbv4_login",
      "tvdbv4_search", "imdb_suggestion" }

raises(e, status, content) ==
    CASE e = "omdb_title" -> omdb_title_raises(status, content)
      [] e = "omdb_search" -> omdb_search_raises(status, content)
      [] e = "tmdb_find" -> tmdb_find_raises(status, content)
      [] e = "tmdb_movies_or_series" ->
            tmdb_movies_or_series_raises(status, content)
      [] e = "tmdb_search" -> tmdb_search_raises(status, content)
      [] e \in {"tvdb_login", "tvdb_refresh_token", "tvdbv4_login"} ->
            tvdb_login_raises(status, content)
      [] e = "tvdb_episodes_id" -> tvdb_episodes_id_raises(status, content)
      [] e \in {"tvdb_series_id", "tvdb_series_id_episodes",
                "tvdb_series_id_episodes_query"} ->
            tvdb_series_id_raises(status, content)
      [] e \in {"tvdb_search_series", "tvdbv4_search"} ->
            tvdb_search_series_raises(status, content)
      [] OTHER -> imdb_suggestion_raises(status, content)

\* An endpoint function gets a response and classifies it.
Respond(e, status, content) ==
    /\ response' = [ endpoint |-> e, status |-> status, body |-> content,
                     raised |-> raises(e, status, content) ]
    /\ UNCHANGED << prov, api_key, pin, cache, token, ctor, gen, args, depth,
                    path, pc, exc, result, page, remaining, last, cands,
                    found, foundDate, foundSeries, out, called, io, reqPages,
                    nyield, nyieldTry, logins, token0, provider, backend,
                    runs, url,
                    request, meta >>

(* ------------------------ imdb_suggestion query ----------------------- *)
\* The query strings a caller passes: letters and digits, and characters
\* that are neither (the underscore among them).
Alnum == {"a", "7"}
QueryChars == Alnum \cup {" ", "_"}
Queries == UNION { [ 1 .. k -> QueryChars ] : k \in 0 .. MaxQuery }

\* re.sub(r"[^a-zA-Z0-9]", "_", query): every character that is no letter
\* and no digit is replaced, one by one.
re_sub(q) == [ i \in 1 .. Len(q) |-> IF q[i] \in Alnum THEN q[i] ELSE "_" ]

\* query.replace("__", "_"): one pass from the left over the occurrences
\* that do not overlap.
RECURSIVE replace(_)
replace(q) ==
    IF Len(q) < 2 THEN q
    ELSE IF q[1] = "_" /\ q[2] = "_"
    THEN << "_" >> \o replace(SubSeq(q, 3, Len(q)))
    ELSE << q[1] >> \o replace(Tail(q))

\* "%s" of a year.
RECURSIVE year_str(_)
year_str(y) ==
    LET digit == << "0", "1", "2", "3", "4", "5", "6", "7", "8", "9" >>
    IN  IF y < 10 THEN << digit[y + 1] >>
        ELSE year_str(y \div 10) \o << digit[(y % 10) + 1] >>

\* imdb_suggestion up to its request: an empty query is refused, else the
\* query is sanitized, the year appended and the url requested.
imdb_suggestion_query(q, y) ==
    /\ url' =
          IF q = <<>>
          THEN [ query |-> q, year |-> y, sanitized |-> <<>>, path |-> <<>>,
                 raised |-> ProviderError ]
          ELSE LET clean == replace(re_sub(q))
               IN  [ query |-> q, year |-> y, sanitized |-> clean,
                     path |-> IF y # NoYear
                              THEN clean \o << "_" >> \o year_str(y)
                              ELSE clean,
                     raised |-> "none" ]
    /\ UNCHANGED << prov, api_key, pin, cache, token, ctor, gen, args, depth,
                    path, pc, exc, result, page, remaining, last, cands,
                    found, foundDate, foundSeries, out, called, io, reqPages,
                    nyield, nyieldTry, logins, token0, provider, response,
                    backend, runs,
                    request, meta >>

(* ------------------- omdb endpoint argument checks -------------------- *)
\* What omdb_title and omdb_search do with their arguments before they
\* build the request. An optional string argument is "None" when it is
\* not passed, "" when it is passed empty, else the string passed.
OMDB_MEDIA_TYPES == {"episode", "movie", "series"}
OMDB_PLOT_TYPES == {"short", "long"}

IdArgs == {"None", "", "tt0133093"}
TitleArgs == {"None", "", "the matrix"}
MediaTypeArgs == {"None", "movie", "series", "episode", "film"}
PlotArgs == {"None", "short", "long", "full"}
\* page numbers around both ends of the range the message names
PageArgs == ((0 - MaxPage) .. MaxPage) \cup ((100 - MaxPage) .. (100 + MaxPage))

\* the truth value python gives a string or None in a condition
truthy(v) == v \notin {"None", ""}

\* the if/elif chain that opens omdb_title: the error raised, or "none"
omdb_title_check(id_imdb, media_type, title, plot) ==
    IF (~truthy(title) /\ ~truthy(id_imdb)) \/ (truthy(title) /\ truthy(id_imdb))
    THEN ProviderError
    ELSE IF truthy(media_type) /\ media_type \notin OMDB_MEDIA_TYPES
    THEN ProviderError
    ELSE IF truthy(plot) /\ plot \notin OMDB_PLOT_TYPES
    THEN ProviderError
    ELSE "none"

\* the two if statements that open omdb_search; `1 > page > 100` is the
\* chained comparison (1 > page) and (page > 100), p being the page
omdb_search_check(media_type, p) ==
    IF truthy(media_type) /\ media_type \notin OMDB_MEDIA_TYPES
    THEN ProviderError
    ELSE IF 1 > p /\ p > 100
    THEN ProviderError
    ELSE "none"

\* omdb_title called: its arguments are checked, then the request is made.
omdb_title_call(id_imdb, media_type, title, plot) ==
    /\ request' =
          LET e == omdb_title_check(id_imdb, media_type, title, plot)
          IN  [ endpoint |-> "omdb_title", id_imdb |-> id_imdb,
                title |-> title, media_type |-> media_type, plot |-> plot,
                page |-> 1, raised |-> e, requested |-> (e = "none") ]
    /\ UNCHANGED << prov, api_key, pin, cache, token, ctor, gen, args, depth,
                    path, pc, exc, result, page, remaining, last, cands,
                    found, foundDate, foundSeries, out, called, io, reqPages,
                    nyield, nyieldTry, logins, token0, provider, response,
                    backend, runs, url, meta >>

\* omdb_search called: its arguments are checked, then the request is made.
omdb_search_call(media_type, p) ==
    /\ request' =
          LET e == omdb_search_check(media_type, p)
          IN  [ endpoint |-> "omdb_search", id_imdb |-> "None",
                title |-> "None", media_type |-> media_type, plot |-> "None",
                page |-> p, raised |-> e, requested |-> (e = "none") ]
    /\ UNCHANGED << prov, api_key, pin, cache, token, ctor, gen, args, depth,
                    path, pc, exc, result, page, remaining, last, cands,
                    found, foundDate, foundSeries, out, called, io, reqPages,
                    nyield, nyieldTry, logins, token0, provider, response,
                    backend, runs, url, meta >>

(* ------------------------ OMDb lookup record -------------------------- *)
\* The record _lookup_movie makes of the content omdb_title returned.
\* A string is the sequence of its characters. A key of the content holds
\* a string, or None (a JSON null), or is not there at all.
None == << "None" >>
NA == << "N", "/", "A" >>
\* in the place of a date: the exception the except clause does not catch
TypeError == << "TypeError" >>

DecimalDigits == << "0", "1", "2", "3", "4", "5", "6", "7", "8", "9" >>

\* the number a string of digits reads as
RECURSIVE int(_)
int(s) ==
    IF s = <<>> THEN 0
    ELSE 10 * int(SubSeq(s, 1, Len(s) - 1))
            + (CHOOSE k \in 1 .. 10 : DecimalDigits[k] = s[Len(s)]) - 1

AllDigits(s) ==
    \A i \in 1 .. Len(s) : \E k \in 1 .. 10 : DecimalDigits[k] = s[i]

\* the names %b knows, in the order of their month
MonthNames ==
    << << "J", "a", "n" >>, << "F", "e", "b" >>, << "M", "a", "r" >>,
       << "A", "p", "r" >>, << "M", "a", "y" >>, << "J", "u", "n" >>,
       << "J", "u", "l" >>, << "A", "u", "g" >>, << "S", "e", "p" >>,
       << "O", "c", "t" >>, << "N", "o", "v" >>, << "D", "e", "c" >> >>

\* the days of a month of the calendar datetime checks a date against
DaysIn(m, y) ==
    IF m = 2
    THEN IF (y % 4 = 0 /\ y % 100 # 0) \/ y % 400 = 0 THEN 29 ELSE 28
    ELSE IF m \in {4, 6, 9, 11} THEN 30 ELSE 31

\* dt.strptime(s, "%d %b %Y") of a string whose words are set apart by
\* single spaces: the date read, or the ValueError raised. The day is one or two
\* digits from 1 to 31, the month a name of %b, the year four digits, and
\* the three together a date of the calendar.
strptime(s) ==
    LET sp == { i \in 1 .. Len(s) : s[i] = " " }
        NoDate == [ ValueError |-> TRUE, year |-> 0, month |-> 0, day |-> 0 ]
    IN  IF Cardinality(sp) # 2 THEN NoDate
        ELSE LET i == CHOOSE k \in sp : \A l \in sp : k <= l
                 j == CHOOSE k \in sp : \A l \in sp : l <= k
                 d == SubSeq(s, 1, i - 1)
                 b == SubSeq(s, i + 1, j - 1)
                 Y == SubSeq(s, j + 1, Len(s))
             IN  IF \/ Len(d) \notin {1, 2} \/ ~AllDigits(d)
                    \/ int(d) \notin 1 .. 31
                    \/ ~(\E m \in 1 .. 12 : MonthNames[m] = b)
                    \/ Len(Y) # 4 \/ ~AllDigits(Y) \/ int(Y) < 1
                 THEN NoDate
                 ELSE LET m == CHOOSE k \in 1 .. 12 : MonthNames[k] = b
                      IN  IF int(d) > DaysIn(m, int(Y)) THEN NoDate
                          ELSE [ ValueError |-> FALSE, year |-> int(Y),
                                 month |-> m, day |-> int(d) ]

\* .strftime("%Y-%m-%d") of a date; %m and %d give two digits
strftime(t) ==
    LET two(n) == IF n < 10 THEN << "0" >> \o year_str(n) ELSE year_str(n)
    IN  year_str(t.year) \o << "-" >> \o two(t.month) \o << "-" >>
            \o two(t.day)

\* response["Released"]: a day, a month and a year set apart by spaces,
\* or no key, null, "N/A" or a date in another form
ReleasedVals ==
    LET DayStrs == { << "1" >>, << "0", "1" >>, << "2", "9" >>,
                     << "3", "1" >>, << "3", "2" >> }
        MonStrs == { MonthNames[2], MonthNames[3], << "F", "o", "o" >> }
        YearStrs == { << "1", "9", "9", "9" >>, << "2", "0", "0", "0" >>,
                      << "9", "9" >> }
    IN  { d \o << " " >> \o b \o << " " >> \o Y :
            d \in DayStrs, b \in MonStrs, Y \in YearStrs }
          \cup { NoKey, None, NA,
                 << "1", "9", "9", "9", "-", "0", "3", "-", "3", "1" >> }

\* the contents omdb_title returns
Responses ==
    [ Released : ReleasedVals,
      Year : { NoKey, None, NA, << "1", "9", "9", "9" >>,
               << "2", "0", "0", "0" >> },
      Plot : { NoKey, None, NA, << "p", "l", "o", "t" >> },
      Title : { NoKey, << "t" >> } ]

\* the try block and its except clause: the date, or the exception that
\* the clause does not catch (strptime of None is a TypeError)
lookup_date(r) ==
    IF r.Released = None THEN TypeError
    ELSE IF r.Released # NoKey /\ ~strptime(r.Released).ValueError
    THEN strftime(strptime(r.Released))
    ELSE IF r.Year \in {NoKey, None, NA} THEN None
    ELSE r.Year \o << "-", "0", "1", "-", "0", "1" >>

\* MetadataMovie(...): a mapping that holds the fields it is given
MetadataMovie(title, date, synopsis, id_imdb, year) ==
    [ title |-> title, date |-> date, synopsis |-> synopsis,
      id_imdb |-> id_imdb, year |-> year ]

\* _lookup_movie run to its yield: omdb_title is called and answers with
\* the content r, or raises; the date is computed; response["Title"],
\* response["Plot"] and response["Year"] are read, a KeyError where the
\* key is not there; the synopsis "N/A" is deleted from the record. The
\* generator runs its body once.
OMDb_lookup_movie_meta(id_imdb, ans, r) ==
    /\ ~meta.called
    /\ meta' =
          IF ans # "ok"
          THEN [ NoMeta EXCEPT !.called = TRUE, !.answer = ans,
                               !.raised = ans ]
          ELSE LET date == lookup_date(r)
                   m == MetadataMovie(r.Title, date, r.Plot, id_imdb, r.Year)
                   e == IF date = TypeError THEN "TypeError"
                        ELSE IF NoKey \in {r.Title, r.Plot, r.Year}
                        THEN "KeyError"
                        ELSE "none"
               IN  [ called |-> TRUE, answer |-> ans, response |-> r,
                     raised |-> e, yielded |-> (e = "none"),
                     record |->
                        IF e # "none" THEN NoMeta.record
                        ELSE IF m.synopsis = NA
                        THEN [ m EXCEPT !.synopsis = NoKey ]
                        ELSE m ]
    /\ UNCHANGED << prov, api_key, pin, cache, token, ctor, gen, args, depth,
                    path, pc, exc, result, page, remaining, last, cands,
                    found, foundDate, foundSeries, out, called, io, reqPages,
                    nyield, nyieldTry, logins, token0, provider, response,
                    backend, runs, url, request >>

(* --------------------------- specification ---------------------------- *)

\* One step of a running generator of OMDb or TMDb.
PagingStep ==
    \/ Propagate
    \/ Return
    \/ OMDb_search
    \/ \E ans \in omdb_title, y \in EntryYears : OMDb_lookup_movie(ans, y)
    \/ \E ans \in omdb_search, n \in 0 .. MaxEntries :
          OMDb_search_movie_page(ans, n)
    \/ \E y \in EntryYears, ans \in omdb_title : OMDb_search_movie_entry(y, ans)
    \/ OMDb_resume
    \/ OMDb_search_movie_next
    \/ TMDb_search
    \/ \E ans \in tmdb_movies_or_series, y \in EntryYears :
          TMDb_search_id_tmdb(ans, y)
    \/ \E ans \in tmdb_find, movies \in BOOLEAN, tvs \in BOOLEAN,
          y \in EntryYears : TMDb_search_id_imdb(ans, movies, tvs, y)
    \/ \E ans \in tmdb_search, n \in 0 .. MaxEntries, tp \in 1 .. MaxTotalPages :
          TMDb_search_title_page(ans, n, tp)
    \/ \E shape \in EntryShapes, y \in EntryYears :
          TMDb_search_title_entry(shape, y)
    \/ TMDb_resume
    \/ TMDb_search_title_next

\* One step of a running generator of IMDb, TVDb or TVDbV4.
OtherStep ==
    \/ IMDb_search
    \/ \E ans \in omdb_title : IMDb_lookup_movie(ans)
    \/ \E ans \in imdb_suggestion, n \in 0 .. MaxEntries :
          IMDb_search_movie_call(ans, n)
    \/ \E qid \in Qids, y \in EntryYears : IMDb_search_movie_entry(qid, y)
    \/ IMDb_resume
    \/ IMDb_search_movie_end
    \/ TVDb_search
    \/ \E ans \in tvdb_search_series, n \in 1 .. MaxSeries :
          TVDb_search_series(ans, n)
    \/ TVDb_candidate
    \/ \E ans \in tvdb_series_id : TVDb_search_id_tvdb(ans)
    \/ \E ans \in tvdb_series_id_episodes_query, n \in 1 .. MaxEntries,
          l \in 1 .. MaxLast : TVDb_search_id_tvdb_page(ans, n, l)
    \/ \E shape \in EntryShapes, dateMatch \in BOOLEAN :
          TVDb_search_id_tvdb_entry(shape, dateMatch)
    \/ TVDb_resume
    \/ TVDb_search_id_tvdb_next
    \/ TVDb_candidate_except
    \/ \E ans \in login : TVDb_search_except(ans)
    \/ \E ans \in tvdbv4_search, n \in 1 .. MaxEntries : TVDbV4_search(ans, n)
    \/ \E shape \in EntryShapes \ {"AttributeError"}, y \in EntryYears :
          TVDbV4_search_entry(shape, y)
    \/ TVDbV4_search_end

\* What the caller does with an instance of one of the classes ps.
Caller(ps) ==
    \/ \E p \in ps, key \in BOOLEAN, pn \in BOOLEAN, c \in BOOLEAN,
          ans \in tvdb_login :
          /\ (pn => p = "TVDbV4")
          /\ (ans # "ok" => ConstructLogs(p, c))
          /\ Construct(p, key, pn, c, ans)
    \/ \E a \in SearchArgs : Search(a)
    \/ Request
    \/ Close

Next == Caller(Providers) \/ PagingStep \/ OtherStep

Spec == Init /\ [][Next]_vars

\* The paginated providers alone, with a caller that goes on asking as long
\* as it holds a generator it has not closed, and a generator that, once
\* resumed, runs to its next yield or to its end.
PagingNext == Caller({"OMDb", "TMDb"}) \/ PagingStep

PagingSpec == Init /\ [][PagingNext]_vars /\ WF_vars(Request \/ PagingStep)

\* A backend whose content does not change: every episode page holds n
\* entries, links.last is last, and a request carrying a token is answered.
\* A request carrying the empty token is answered for the calls in open
\* (0 for the series record, p for episode page p: responses that need no
\* token, as cached ones) and refused with status 401 for the others.
Backends ==
    [ open : SUBSET (0 .. MaxLast), n : 1 .. MaxEntries, last : 1 .. MaxLast ]

Answer(call) ==
    IF token = NoToken /\ call \notin backend.open THEN ProviderError ELSE "ok"

\* The same tvdb-id search, called twice on one instance of TVDb or TVDbV4
\* and consumed to its end each time, against an unchanged backend.
RepeatNext ==
    \/ \E p \in TokenBased, c \in BOOLEAN :
          Construct(p, TRUE, p = "TVDbV4", c, "ok")
    \/ \E a \in SearchArgs :
          /\ a.id /\ a.date = <<>>
          /\ Len(runs) = 0 \/ (Len(runs) = 1 /\ a = args)
          /\ Search(a)
    \/ Request
    \/ TVDb_search
    \/ TVDb_search_id_tvdb(Answer(0))
    \/ TVDb_search_id_tvdb_page(Answer(page), backend.n, backend.last)
    \/ TVDb_search_id_tvdb_entry("ok", TRUE)
    \/ TVDb_resume
    \/ TVDb_search_id_tvdb_next
    \/ TVDb_search_except("ok")
    \/ Return

RepeatInit == Fresh /\ backend \in Backends

RepeatSpec == RepeatInit /\ [][RepeatNext]_vars

\* The parameter sets with which TVDbV4.search does not take its free-text
\* path.
TwinRaws == { raw \in RawParams : ~Locals("TVDbV4", raw).title }

\* How a search() call ended, as far as the class does not name it: the
\* login functions are left out of the endpoints called.
Outcome ==
    [ result |-> result, path |-> path, depth |-> depth, logins |-> logins,
      count |-> nyield, holds |-> token # NoToken,
      calls |-> called \ {"tvdb_login", "tvdbv4_login"} ]

\* After the search on the TVDb instance has ended, the caller notes how it
\* ended and constructs TVDbV4 with the same key, a PIN and the same cache
\* option.
TVDbV4_twin ==
    /\ prov = "TVDb" /\ gen = "finished" /\ Len(runs) = 1
    /\ prov' = "TVDbV4" /\ pin' = TRUE
    /\ token' = (IF cache THEN NoToken ELSE token + 1)
    /\ io' = (IF cache THEN "none" ELSE "tvdbv4_login")
    /\ gen' = "none" /\ depth' = 0 /\ path' = "none" /\ pc' = "none"
    /\ exc' = "none" /\ result' = "none"
    /\ out' = NoRecord /\ called' = {} /\ reqPages' = <<>>
    /\ nyield' = 0 /\ nyieldTry' = 0 /\ logins' = 0 /\ token0' = NoToken
    /\ runs' = << Append(runs[1], Outcome) >>
    /\ UNCHANGED << api_key, cache, ctor, args, loops, provider, response,
                    backend, url,
                    request, meta >>

\* The same search on an instance of TVDb and then on one of TVDbV4, each
\* consumed to its end, against an unchanged backend: the series search
\* returns as many series as a page holds episodes, and the first episode
\* of every page is of the date asked for.
TwinNext ==
    \/ \E c \in BOOLEAN : Construct("TVDb", TRUE, FALSE, c, "ok")
    \/ \E raw \in TwinRaws :
          /\ \/ Len(runs) = 0 /\ prov = "TVDb"
             \/ /\ Len(runs) = 1 /\ prov = "TVDbV4"
                /\ Locals("TVDb", raw) = args
          /\ Search(Locals(prov, raw))
    \/ TVDbV4_twin
    \/ Request
    \/ TVDb_search
    \/ TVDb_search_series(Answer(0), backend.n)
    \/ TVDb_candidate
    \/ TVDb_search_id_tvdb(Answer(0))
    \/ TVDb_search_id_tvdb_page(Answer(page), backend.n, backend.last)
    \/ TVDb_search_id_tvdb_entry("ok", remaining = backend.n)
    \/ TVDb_resume
    \/ TVDb_search_id_tvdb_next
    \/ TVDb_candidate_except
    \/ TVDb_search_except("ok")
    \/ Propagate
    \/ Return

TwinSpec == RepeatInit /\ [][TwinNext]_vars

\* Instances obtained from provider_factory, and searches called on them.
FactoryNext ==
    \/ \E name \in FactoryNames : provider_factory_call(name)
    \/ \E key \in BOOLEAN, c \in BOOLEAN, ans \in tvdb_login :
          /\ (ans # "ok" =>
                 /\ lower(provider.name) \in DOMAIN providers
                 /\ ConstructLogs(providers[lower(provider.name)], c))
          /\ provider_factory(key, FALSE, c, ans)
    \/ \E a \in SearchArgs : Search(a)
    \/ Request
    \/ Close

FactorySpec == Init /\ [][FactoryNext]_vars

\* The endpoint functions alone, each handed any status and content.
EndpointNext ==
    \E e \in Endpoints, status \in Statuses, content \in Contents :
        Respond(e, status, content)

EndpointSpec == Init /\ [][EndpointNext]_vars

\* imdb_suggestion alone, handed any query and year.
QueryNext ==
    \E q \in Queries, y \in YearArgs : imdb_suggestion_query(q, y)

QuerySpec == Init /\ [][QueryNext]_vars

\* omdb_title and omdb_search alone, called with any arguments.
ArgumentNext ==
    \/ \E id_imdb \in IdArgs, media_type \in MediaTypeArgs,
          title \in TitleArgs, plot \in PlotArgs :
          omdb_title_call(id_imdb, media_type, title, plot)
    \/ \E media_type \in MediaTypeArgs, p \in PageArgs :
          omdb_search_call(media_type, p)

ArgumentSpec == Init /\ [][ArgumentNext]_vars

\* _lookup_movie alone, omdb_title answering with any content or error.
LookupNext ==
    \E id_imdb \in IdArgs \ {"None", ""}, ans \in omdb_title, r \in Responses :
        OMDb_lookup_movie_meta(id_imdb, ans, r)

LookupSpec == Init /\ [][LookupNext]_vars

(* ------------------------------ claims -------------------------------- *)

MapiErrors == {NotFound, ProviderError, NetworkError}

\* C1 (as amended): during one search() call of TVDb or TVDbV4 at most one
\* login is performed and the search body is attempted at most twice.  A
\* provider error raised while the token is empty causes exactly one login
\* call; if the login returns, the whole search is retried once, and if the
\* login itself raises, its error reaches the caller with no retry.  A
\* provider error raised while a token is held (the retry included) reaches
\* the caller with no further login or retry.
C1_Handler ==
    (Running /\ prov \in TokenBased /\ pc = "raise" /\ exc = ProviderError) =>
        IF token = NoToken
        THEN /\ logins' = logins + 1 /\ io' = LoginName
             /\ \/ /\ token' # NoToken /\ depth' = depth + 1
                   /\ pc' = "start" /\ gen' = "running"
                \/ /\ token' = token /\ depth' = depth
                   /\ gen' = "finished" /\ result' \in {ProviderError, NetworkError}
        ELSE /\ gen' = "finished" /\ result' = ProviderError
             /\ token' = token /\ logins' = logins /\ depth' = depth
             /\ io' = "none"

C1_RetryOnce ==
    /\ [](logins <= 1 /\ depth <= 2 /\ (depth = 2 => logins = 1 /\ token # NoToken))
    /\ [][C1_Handler]_vars

\* C1 witness: the retry ran and its provider error reached the caller.
C1_Witness ==
    gen = "finished" /\ depth = 2 /\ logins = 1 /\ result = ProviderError

\* C1 as claimed: a provider error raised while the token is empty always
\* causes one login followed by one retry of the whole search.
C1_Original ==
    [][ (Running /\ prov \in TokenBased /\ pc = "raise" /\ exc = ProviderError
         /\ token = NoToken)
        => (logins' = logins + 1 /\ depth' = depth + 1 /\ pc' = "start") ]_vars

\* C2: the title searches of OMDb and TMDb ask for pages 1, 2, ... in
\* increasing order and never for a page above their page_max (10 and 5),
\* whatever total the backend reports; and a title search that the caller
\* goes on consuming ends.
PagesInOrder == \A i \in 1 .. Len(reqPages) : reqPages[i] = i

C2_PageCap ==
    /\ [](/\ PagesInOrder
          /\ prov = "OMDb" => Len(reqPages) <= OMDb_page_max
          /\ prov = "TMDb" => Len(reqPages) <= TMDb_page_max)
    /\ (gen = "running" /\ path = "title") ~> (gen \in {"finished", "closed"})

\* C2 witness: TMDb stopped after page_max pages though the backend
\* reported more.
C2_Witness ==
    /\ prov = "TMDb" /\ pc = "return" /\ page = TMDb_page_max
    /\ last > TMDb_page_max /\ Len(reqPages) = TMDb_page_max

\* C3 as claimed: in every title-based search with a year Y, no yielded
\* record has a year outside [Y-1, Y+1].
C3_YearWindow ==
    (gen = "suspended" /\ out # NoRecord /\ path \in {"title", "query"}
     /\ args.year # NoYear)
        => (args.year - 1 <= out.year /\ out.year <= args.year + 1)

\* C4 as claimed: an identifier lookup (OMDb by IMDb id, TMDb by TMDb id,
\* TMDb by IMDb id) with kind movie or series that the backend answers
\* yields exactly one record, a MetadataMovie for kind movie and a
\* MetadataTelevision for kind series.
C4_OneRecordOfKind ==
    LET idLookup == \/ prov = "OMDb" /\ path = "lookup"
                    \/ prov = "TMDb" /\ path \in {"id_tmdb", "id_imdb"}
        want == IF args.kind = "movie"
                THEN "MetadataMovie" ELSE "MetadataTelevision"
    IN  (idLookup /\ args.kind \in {"movie", "series"}) =>
            /\ (gen = "suspended" /\ out # NoRecord) => out.variant = want
            /\ (gen = "finished" /\ result \notin MapiErrors)
                   => (result = "StopIteration" /\ nyield = 1)

\* C5 as claimed: a search with no identifier and no title or name fails
\* with NotFound without any endpoint call or login and with the token
\* unchanged; a search with a title and no identifier does not fail with
\* NotFound before any endpoint call.
C5_Resolves ==
    /\ (gen = "finished" /\ ~args.id /\ ~args.id_imdb /\ ~args.title
        /\ ~args.series)
           => (result = NotFound /\ called = {} /\ token = token0)
    /\ (gen = "finished" /\ args.title /\ ~args.id /\ ~args.id_imdb
        /\ result = NotFound)
           => called # {}

C7_ValidationImmediate ==
    (prov \in TokenBased /\ gen = "finished" /\ args.series
     /\ args.date # <<>> /\ ~date_fmt_match(args.date))
        => (result = ProviderError /\ called = {} /\ token = token0)

\* C8 as claimed: in the multi-entry searches (TMDb title search, TVDb and
\* TVDbV4 episode search by tvdb-id, TVDbV4 free-text search) an entry with
\* a missing or malformed field never ends the search.
C8_NeverAborts ==
    (gen = "finished"
     /\ \/ prov = "TMDb" /\ path = "title"
        \/ prov \in TokenBased /\ path \in {"id_tvdb", "query"})
        => result \notin EntryShapes

\* C9 as claimed: an OMDb title search ends with NotFound only if it has
\* yielded no record.
C9_NotFoundOnlyIfNone ==
    (prov = "OMDb" /\ path = "title" /\ gen = "finished" /\ result = NotFound)
        => nyield = 0

\* C10: search is pull-driven.  A step of an existing instance calls an
\* endpoint or writes the token only while a request of the caller is
\* pending (so not in the call of search(), not while the generator is
\* suspended at a yield, not after it was closed or has ended), and the
\* step that hands a record to the caller suspends the generator.
C10_PullDriven ==
    [][ /\ (prov # "none" /\ (io' # "none" \/ token' # token)) => gen = "running"
        /\ (out' # NoRecord /\ out' # out) => gen' = "suspended" ]_vars

\* C10 witness: the caller dropped a generator of TVDb that had yielded a
\* record after endpoint calls.
C10_Witness ==
    prov = "TVDb" /\ gen = "closed" /\ nyield > 0 /\ called # {}

\* C12: in a search of TVDb or TVDbV4 a network error or a NotFound that
\* reaches the handler of search() leaves the generator at once, with no
\* login, no retry and the token unchanged; a network error raised inside
\* the loop over the candidates is passed on unchanged; and a login or a
\* retry is only ever started by a provider error.
C12_Handler ==
    /\ (Running /\ prov \in TokenBased /\ pc = "raise"
        /\ exc \in {NetworkError, NotFound})
           => /\ gen' = "finished" /\ result' = exc
              /\ token' = token /\ logins' = logins /\ depth' = depth
              /\ io' = "none"
    /\ (Running /\ prov \in TokenBased /\ pc = "raise_cand"
        /\ exc = NetworkError)
           => /\ pc' = "raise" /\ exc' = exc /\ io' = "none"
              /\ token' = token /\ logins' = logins /\ depth' = depth
    /\ (prov \in TokenBased /\ gen = "running"
        /\ (logins' > logins \/ depth' > depth \/ token' # token))
           => (pc = "raise" /\ exc = ProviderError)

C12_NoRetryOnOther == [][C12_Handler]_vars

\* C12 witness: a network error met with an empty token has reached the
\* caller, with no login and the token still empty.
C12_Witness ==
    /\ prov \in TokenBased /\ gen = "finished" /\ result = NetworkError
    /\ token = NoToken /\ logins = 0 /\ called # {}

\* Every parameter set a caller may pass, with the locals search() reads
\* from it.
LocalsGraph ==
    { << p, raw, Locals(p, raw) >> : p \in Providers, raw \in RawParams }

\* The parameter sets a caller may pass that give provider p the locals a.
RawsOf(p, a) ==
    { t[2] : t \in { u \in LocalsGraph : u[1] = p /\ u[3] = a } }

\* The sub-search the priority of the specification gives for parameters
\* raw of TVDb.search: the first line whose criteria are all present.
TVDb_priority(raw) ==
    LET tvdb == "id_key" \in raw.given \/ "id_tvdb" \in raw.given
        imdb == "id_imdb" \in raw.given
        series == "series" \in raw.given
        date == raw.date # <<>>
    IN  CASE tvdb /\ date -> "tvdb_date"
          [] tvdb /\ ~date -> "id_tvdb"
          [] ~tvdb /\ imdb -> "id_imdb"
          [] ~tvdb /\ ~imdb /\ series /\ date -> "series_date"
          [] ~tvdb /\ ~imdb /\ series /\ ~date -> "series"
          [] OTHER -> "NotFound"

\* C13: the dispatch of TVDb.search takes the sub-search the priority
\* gives (tvdb-id with date, tvdb-id, imdb-id, series with date, series,
\* otherwise NotFound) for every parameter set, a series-with-date search
\* with a date that fails validation raising instead of starting; and
\* within one attempt the sub-search chosen never changes.
C13_Step ==
    /\ (Running /\ prov = "TVDb" /\ pc = "start") =>
          \A raw \in RawsOf("TVDb", args) :
              LET want == TVDb_priority(raw)
              IN  IF want = "NotFound"
                  THEN path' = "none" /\ pc' = "raise" /\ exc' = NotFound
                  ELSE IF want = "series_date" /\ ~date_fmt_match(raw.date)
                  THEN path' = "none" /\ pc' = "raise" /\ exc' = ProviderError
                  ELSE path' = want /\ pc' # "raise"
    /\ (prov = "TVDb" /\ gen = "running" /\ path # "none") =>
          \/ path' = path
          \/ path' = "none" /\ depth' = depth + 1 /\ pc' = "start"

C14_OnePath ==
    (prov = "TMDb" /\ gen # "none") =>
        \A raw \in RawsOf("TMDb", args) :
            LET tmdb == "id_key" \in raw.given \/ "id_tmdb" \in raw.given
                imdb == "id_imdb" \in raw.given
            IN  /\ tmdb => called \subseteq {"tmdb_movies_or_series"}
                /\ (~tmdb /\ imdb) => called \subseteq {"tmdb_find"}
                /\ (~tmdb /\ ~imdb) => called \subseteq {"tmdb_search"}
                /\ path \in {"none", IF tmdb THEN "id_tmdb"
                                     ELSE IF imdb THEN "id_imdb" ELSE "title"}

\* C14 witness: a search given an IMDb id and a title has called tmdb_find.
C14_Witness ==
    /\ prov = "TMDb" /\ called = {"tmdb_find"}
    /\ \E raw \in RawsOf("TMDb", args) :
          "id_imdb" \in raw.given /\ "title" \in raw.given

\* C15: the construction of OMDb, TMDb, TVDb or TVDbV4 without an API key,
\* and of TVDbV4 without a PIN, fails with the provider error, and no login
\* call was made and no token obtained.
C15_Credentials ==
    (prov \in Providers /\ gen = "none"
     /\ ((prov # "IMDb" /\ ~api_key) \/ (prov = "TVDbV4" /\ ~pin)))
        => (ctor = ProviderError /\ io = "none" /\ token = NoToken)

\* C15 witness: TVDbV4 constructed with a key, without a PIN and with the
\* cache disabled.
C15_Witness ==
    /\ prov = "TVDbV4" /\ api_key /\ ~pin /\ ~cache /\ ctor = ProviderError

\* C16: a TVDb or TVDbV4 constructor that has its credentials calls login
\* if and only if the cache is disabled; with the cache enabled the
\* instance starts with an empty token, and the token of an instance is
\* written after construction only by the handler of a provider error.
C16_AfterInit ==
    (prov \in TokenBased /\ gen = "none" /\ api_key
     /\ (prov = "TVDbV4" => pin))
        => /\ (io = LoginName) <=> ~cache
           /\ cache => (token = NoToken /\ ctor = "ok")
           /\ (~cache /\ ctor = "ok") => token # NoToken

C16_LoginAtInit ==
    /\ []C16_AfterInit
    /\ [][ (prov \in TokenBased /\ (token' # token \/ logins' > logins))
           => (gen = "running" /\ pc = "raise" /\ exc = ProviderError
               /\ logins' = logins + 1) ]_vars

\* C16 witness: an instance built with the cache enabled got its token from
\* the handler of a provider error.
C16_Witness ==
    /\ prov \in TokenBased /\ cache /\ token # NoToken /\ logins = 1
    /\ depth = 2

\* C18 as claimed: an IMDb title search with kind movie or series that
\* yields no record ends with NotFound, also when the response holds
\* entries of other kinds only, and never returns without a record.
C18_EmptyBucket ==
    (prov = "IMDb" /\ path = "title" /\ gen = "finished"
     /\ args.kind \in {"movie", "series"} /\ result = "StopIteration")
        => nyield > 0

\* C19 as claimed: a free-text search (TVDbV4 query search, IMDb title
\* search) with a kind other than movie or series ends with the provider
\* error and yields no record, whatever the backend answers (a backend that
\* cannot be reached at all may end it with the network error instead).
C19_UnsupportedKind ==
    (gen = "finished" /\ args.kind \notin {"movie", "series"}
     /\ \/ prov = "IMDb" /\ args.title /\ ~args.id
        \/ prov = "TVDbV4" /\ args.title)
        => (result \in {ProviderError, NetworkError} /\ nyield = 0)

\* C20 as claimed: every endpoint function gives the provider error for
\* status 401, NotFound for status 404 and the network error for any other
\* status but 200; and omdb_search, tmdb_find and tmdb_search give NotFound
\* for a body that reports no results.
C20_Classification ==
    response # NoResponse =>
        /\ response.status = 401 => response.raised = ProviderError
        /\ response.status = 404 => response.raised = NotFound
        /\ response.status \notin {200, 401, 404}
              => response.raised = NetworkError
        /\ (response.status = 200 /\ response.body = "noresults"
            /\ response.endpoint \in {"omdb_search", "tmdb_find", "tmdb_search"})
              => response.raised = NotFound

\* C17: once provider_factory has run, a name whose lower-cased form is not
\* in its table has given MapiException and no instance (no class chosen,
\* no login, no token), and a name whose lower-cased form is in the table
\* has not given MapiException, in whatever case it was written.
C17_Unrecognized ==
    (provider.called /\ ctor # "none") =>
        IF lower(provider.name) \in DOMAIN providers
        THEN ctor # "MapiException" /\ prov = providers[lower(provider.name)]
        ELSE /\ ctor = "MapiException" /\ prov = "none"
             /\ io = "none" /\ token = NoToken /\ gen = "none"

\* C17 witness: provider_factory("Kodi") has failed.
C17_Witness ==
    /\ provider.called /\ provider.name = <<"K", "o", "d", "i">>
    /\ ctor = "MapiException"

\* C11 as claimed: when the same tvdb-id search is called twice on one
\* instance against an unchanged backend, the caller receives the same
\* sequence of records both times, also when the first call starts with an
\* empty token and goes through the re-login and the retry.
C11_SameRecords ==
    (Len(runs) = 2 /\ gen = "finished") => runs[1] = runs[2]

\* The records a tvdb-id search yields against the unchanged backend when
\* every request is answered: the entries of pages 1 .. last, in order.
Episodes ==
    [ k \in 1 .. (backend.last * backend.n) |->
        [ page |-> ((k - 1) \div backend.n) + 1,
          left |-> backend.n - 1 - ((k - 1) % backend.n),
          variant |-> "MetadataTelevision" ] ]

\* C21 as claimed: a tvdb-id search that goes through the re-login and the
\* retry hands no episode of the backend to the caller twice, and what the
\* caller has received when the search returns is what the search yields
\* with a valid token from the start.
C21_NoDuplicates ==
    \A i \in DOMAIN runs :
        /\ \A j, k \in DOMAIN runs[i] : runs[i][j] = runs[i][k] => j = k
        /\ (i = Len(runs) /\ gen = "finished" /\ result = "StopIteration")
              => runs[i] = Episodes

\* C22: once an instance exists, its class, api_key, pin and cache never
\* change, over any sequence of searches; the token is written only by the
\* re-login of the handler of search(), which replaces the empty token by
\* the token the login returned, so it changes at most once and is never
\* emptied again.
C22_Step ==
    /\ prov # "none" =>
          /\ prov' = prov /\ api_key' = api_key
          /\ pin' = pin /\ cache' = cache
    /\ (prov # "none" /\ token' # token) =>
          /\ token = NoToken /\ token' # NoToken
          /\ gen = "running" /\ pc = "raise" /\ exc = ProviderError
          /\ io' = LoginName

C22_TokenFrame == [][C22_Step]_vars

\* C22 witness: a later search on the same instance began with the token an
\* earlier search obtained by its re-login, and has ended with it.
C22_Witness ==
    /\ prov \in TokenBased /\ cache /\ token # NoToken
    /\ token0 = token /\ gen = "finished" /\ logins = 0

\* C23 as claimed: the episode search by tvdb-id requests page 1 and then
\* only pages up to the last page the backend reported, whatever that
\* value is, a value smaller than the current page included.
C23_PagesToLast ==
    [][ (prov \in TokenBased /\ pc = "tvdb_episodes"
         /\ io' = "tvdb_series_id_episodes_query")
            => (page = 1 \/ page <= last) ]_vars

\* The date strings the specification lets pass: the whole string is YYYY,
\* YYYY-MM or YYYY-MM-DD, the year one of 19xx and 20xx, the month 01 .. 12
\* and the day 01 .. 31.
WholeDate(d) ==
    LET digit(i) == d[i] \in {"0", "1", "2", "3", "4", "5", "6", "7", "8", "9"}
        year == /\ << d[1], d[2] >> \in { <<"1", "9">>, <<"2", "0">> }
                /\ digit(3) /\ digit(4)
        month == /\ d[5] = "-"
                 /\ \/ d[6] = "0" /\ digit(7) /\ d[7] # "0"
                    \/ d[6] = "1" /\ d[7] \in {"0", "1", "2"}
        day == /\ d[8] = "-"
               /\ \/ d[9] = "0" /\ digit(10) /\ d[10] # "0"
                  \/ d[9] \in {"1", "2"} /\ digit(10)
                  \/ d[9] = "3" /\ d[10] \in {"0", "1"}
    IN  \/ Len(d) = 4 /\ year
        \/ Len(d) = 7 /\ year /\ month
        \/ Len(d) = 10 /\ year /\ month /\ day

\* C24 as claimed: the dispatch of a series-name-plus-date search of TVDb
\* or TVDbV4 raises the validation error exactly for the date strings that
\* are not, as a whole, YYYY, YYYY-MM or YYYY-MM-DD with a valid month and
\* day (month 13 and trailing characters are rejected).
C24_DateCheck ==
    [][ (Running /\ prov \in TokenBased /\ pc = "start"
         /\ ~args.id /\ ~args.id_imdb /\ args.series /\ args.date # <<>>)
            => ((pc' = "raise" /\ exc' = ProviderError)
                    <=> ~WholeDate(args.date)) ]_vars

\* C25 as claimed: a TMDb search by IMDb id that tmdb_find answers ends in
\* one of two ways, with one record yielded or with NotFound; no other
\* error ends it, an empty bucket of the kind asked for gives NotFound.
C25_FindOutcome ==
    (prov = "TMDb" /\ path = "id_imdb" /\ gen = "finished"
     /\ result \notin {ProviderError, NetworkError})
        => \/ result = "StopIteration" /\ nyield = 1
           \/ result = NotFound /\ nyield = 0

\* C26: in one run of a fan-out (_search_series, _search_series_date) at
\* most MaxCandidates candidates are taken from the series search; the
\* candidates are visited one after the other, the next one only when the
\* one before is exhausted or has failed with NotFound; and every endpoint
\* call and every record yielded in between belongs to the candidate being
\* visited, until the run ends.
C26_Step ==
    (Running /\ prov \in TokenBased /\ InFanout /\ path' = path
     /\ gen' # "finished") =>
        /\ pc = "tvdb_search_series" =>
              (cands' <= MaxCandidates /\ pc' \in {"tvdb_candidate", "raise"})
        /\ pc # "tvdb_search_series" =>
              /\ cands' \in {cands, cands - 1}
              /\ cands' # cands => (pc = "tvdb_candidate" /\ io' = "none")
              /\ (io' # "none" \/ gen' = "suspended") => cands' = cands
        /\ (pc' = "tvdb_candidate" /\ pc # "tvdb_candidate") =>
              \/ pc = "tvdb_search_series"
              \/ pc = "tvdb_entry" /\ remaining = 0 /\ page = last
              \/ pc = "raise_cand" /\ exc = NotFound

C27_DateNotFound ==
    (prov \in TokenBased /\ HasDate /\ gen = "finished" /\ result = NotFound)
        => nyieldTry = 0

\* The characters of q with every maximal run of characters that are no
\* letter and no digit replaced by one separator.
RECURSIVE Collapse(_)
Collapse(q) ==
    IF q = <<>> THEN <<>>
    ELSE IF q[1] \in Alnum THEN << q[1] >> \o Collapse(Tail(q))
    ELSE IF Len(q) >= 2 /\ q[2] \notin Alnum THEN Collapse(Tail(q))
    ELSE << "_" >> \o Collapse(Tail(q))

\* C29 as claimed: the query imdb_suggestion requests is the query it was
\* given with every maximal run of non-alphanumeric characters, of any
\* length, replaced by exactly one separator, so it never holds two
\* separators side by side.
C29_Sanitized ==
    (url # NoUrl /\ url.raised = "none") =>
        /\ url.sanitized = Collapse(url.query)
        /\ \A i \in 1 .. (Len(url.sanitized) - 1) :
              ~(url.sanitized[i] = "_" /\ url.sanitized[i + 1] = "_")

\* C30 as claimed: provider_factory raises its non-existing-provider error
\* exactly for the names has_provider rejects; every name has_provider
\* accepts (tvdb, tvdbv4, imdb, omdb, tmdb, in any case) reaches the
\* constructor of its class.
C30_FactoryCovers ==
    (provider.called /\ ctor # "none") =>
        (ctor = "MapiException" <=> ~has_provider(provider.name))

C31_Parses(r) == r.Released \notin {NoKey, None} /\ ~strptime(r.Released).ValueError

C31_Iso(r, date) ==
    LET t == strptime(r.Released)
    IN  /\ Len(date) = 10 /\ date[5] = "-" /\ date[8] = "-"
        /\ AllDigits(SubSeq(date, 1, 4)) /\ int(SubSeq(date, 1, 4)) = t.year
        /\ AllDigits(SubSeq(date, 6, 7)) /\ int(SubSeq(date, 6, 7)) = t.month
        /\ AllDigits(SubSeq(date, 9, 10)) /\ int(SubSeq(date, 9, 10)) = t.day

\* C31 as claimed: of any content omdb_title returns with a title and a
\* synopsis, the direct lookup makes a record; its date is the ISO form of
\* a release date that parses as DD Mon YYYY; when the release date does
\* not parse or is missing, the date is the year followed by -01-01 if a
\* year is present, and null if the year is missing or the not-available
\* value; the synopsis is left out of the record exactly when the
\* backend's synopsis is the not-available value.
C31_LookupRecord ==
    (/\ meta.called /\ meta.answer = "ok"
     /\ meta.response.Title # NoKey /\ meta.response.Plot # NoKey)
        => LET r == meta.response
               date == meta.record.date
           IN  /\ meta.yielded
               /\ C31_Parses(r) => C31_Iso(r, date)
               /\ (~C31_Parses(r) /\ r.Year \notin {NoKey, None, NA})
                     => date = r.Year \o << "-", "0", "1", "-", "0", "1" >>
               /\ (~C31_Parses(r) /\ r.Year \in {NoKey, None, NA})
                     => date = None
               /\ meta.record.synopsis = NoKey <=> r.Plot = NA

\* C32 as claimed: omdb_search raises the provider error, and makes no
\* request, for every page number outside 1..100; omdb_title raises the
\* provider error when neither id_imdb nor title is given and when both
\* are given.
C32_ArgumentsRejected ==
    /\ (request.endpoint = "omdb_search" /\ request.page \notin 1 .. 100)
          => (request.raised = ProviderError /\ ~request.requested)
    /\ (request.endpoint = "omdb_title"
          /\ truthy(request.id_imdb) = truthy(request.title))
          => (request.raised = ProviderError /\ ~request.requested)

====
